---- MODULE Spec2Model ----
(***************************************************************************)
(* C0 compiler front end: the lexical scanner (lexer.c, token.c) and the   *)
(* automaton toolkit (nfa_dfa.c): identifier NFA, subset construction,     *)
(* DFA minimisation.                                                       *)
(*                                                                         *)
(* Characters are their ASCII codes.  A C string is the sequence of its    *)
(* characters without the terminating NUL (code 0); source[i] in C is      *)
(* source[i+1] here.                                                       *)
(***************************************************************************)
EXTENDS Integers, Sequences, FiniteSets, TLC

VARIABLES
    lexer,          \* Lexer: source, pos, length, line, column, current_char
    tokens,         \* history: the tokens returned so far, with their spans
    skipped,        \* history: the whitespace runs and comments skipped so far
    pc,             \* position in the automaton pipeline
    nfa,            \* NFA handed to nfa_to_dfa
    dfa_states,     \* nfa_to_dfa: registry of state sets (dfa_states[0..num_dfa_states))
    unmarked,       \* nfa_to_dfa: worklist (unmarked[0..unmarked_count))
    dfa,            \* DFA built by nfa_to_dfa
    partition,      \* minimize_dfa: block of every state of dfa
    num_partitions, \* minimize_dfa: number of block ids handed out
    passes,         \* history: num_partitions at the start of every refinement pass
    min_dfa,        \* minimize_dfa(dfa)
    min2_dfa        \* minimize_dfa(min_dfa)

lexvars == <<lexer, tokens, skipped>>
autvars == <<pc, nfa, dfa_states, unmarked, dfa, partition, num_partitions,
             passes, min_dfa, min2_dfa>>
vars == <<lexer, tokens, skipped, pc, nfa, dfa_states, unmarked, dfa, partition,
          num_partitions, passes, min_dfa, min2_dfa>>

(***************************************************************************)
(* Bounds of the model.                                                    *)
(***************************************************************************)
\* longest enumerated source text
MaxSrcLen == 3
\* calls of get_next_token made after the first EOF token
MaxEofCalls == 2
\* states plus transitions of the enumerated NFAs
MaxNfaSize == 4
\* the NFAs "the k-th character from the end is an a", k up to MaxK
MaxK == 7
\* longest word tried on an automaton
MaxWordLen == 3
\* most transitions of an NFA whose minimization is followed to its end
MaxLiveTransitions == 9
\* most states of a set handed to epsilon_closure
MaxSetLen == 2

(***************************************************************************)
(* <ctype.h> in the C locale.                                              *)
(***************************************************************************)
\* isspace with the character '?' taken for a blank
isspace_lenient(c) == c \in {32, 9, 10, 11, 12, 13, 63}

isspace(c) == c \in {32, 9, 10, 11, 12, 13}
isdigit(c) == c \in 48..57
isalpha(c) == c \in (65..90) \cup (97..122)
isalnum(c) == isalpha(c) \/ isdigit(c)
isxdigit(c) == isdigit(c) \/ c \in (65..70) \cup (97..102)

(***************************************************************************)
(* token.c                                                                 *)
(***************************************************************************)
keywords ==
    << <<<<99, 111, 110, 115, 116>>, "CONST">>,                  \* const
       <<<<105, 110, 116>>, "INT">>,                            \* int
       <<<<100, 111, 117, 98, 108, 101>>, "DOUBLE">>,           \* double
       <<<<99, 104, 97, 114>>, "CHAR">>,                        \* char
       <<<<118, 111, 105, 100>>, "VOID">>,                      \* void
       <<<<105, 102>>, "IF">>,                                  \* if
       <<<<101, 108, 115, 101>>, "ELSE">>,                      \* else
       <<<<119, 104, 105, 108, 101>>, "WHILE">>,                \* while
       <<<<102, 111, 114>>, "FOR">>,                            \* for
       <<<<114, 101, 116, 117, 114, 110>>, "RETURN">>,          \* return
       <<<<98, 114, 101, 97, 107>>, "BREAK">>,                  \* break
       <<<<99, 111, 110, 116, 105, 110, 117, 101>>, "CONTINUE">>, \* continue
       <<<<115, 116, 114, 117, 99, 116>>, "STRUCT">> >>         \* struct

RECURSIVE lookup_keyword_from(_, _)
lookup_keyword_from(str, i) ==
    IF i > Len(keywords) THEN "IDENTIFIER"
    ELSE IF str = keywords[i][1] THEN keywords[i][2]
    ELSE lookup_keyword_from(str, i + 1)

\* lookup_keyword comparing only as many characters as the keyword has
lookup_keyword_prefix(str) ==
    LET hits == {i \in 1..Len(keywords) :
                    /\ Len(str) >= Len(keywords[i][1])
                    /\ SubSeq(str, 1, Len(keywords[i][1])) = keywords[i][1]}
    IN  IF hits = {} THEN "IDENTIFIER"
        ELSE keywords[CHOOSE i \in hits : \A k \in hits : i <= k][2]

lookup_keyword(str) == lookup_keyword_from(str, 1)

\* The value union is left unset by create_token.
create_token(type, lexeme, line, column) ==
    [type |-> type, lexeme |-> lexeme, line |-> line, column |-> column,
     value |-> <<"unset">>]

(***************************************************************************)
(* lexer.c: cursor                                                         *)
(***************************************************************************)
\* create_lexer that leaves the lookahead empty
create_lexer_no_lookahead(source) ==
    [source |-> source, pos |-> 0, length |-> Len(source), line |-> 1, column |-> 1,
     current_char |-> 0]

create_lexer(source) ==
    [source |-> source, pos |-> 0, length |-> Len(source), line |-> 1, column |-> 1,
     current_char |-> IF Len(source) > 0 THEN source[1] ELSE 0]

\* advance without the end-of-input guard
advance_unguarded(lx) ==
    [lx EXCEPT !.line = IF lx.current_char = 10 THEN lx.line + 1 ELSE lx.line,
               !.column = IF lx.current_char = 10 THEN 1 ELSE lx.column + 1,
               !.pos = lx.pos + 1,
               !.current_char = IF lx.pos + 1 < lx.length
                                THEN lx.source[lx.pos + 2] ELSE 0]

\* advance counting every character as a column
advance_column_only(lx) ==
    IF lx.pos < lx.length
    THEN [lx EXCEPT !.column = lx.column + 1,
                    !.pos = lx.pos + 1,
                    !.current_char = IF lx.pos + 1 < lx.length
                                     THEN lx.source[lx.pos + 2] ELSE 0]
    ELSE lx

advance(lx) ==
    IF lx.pos < lx.length
    THEN [lx EXCEPT !.line = IF lx.current_char = 10 THEN lx.line + 1 ELSE lx.line,
                    !.column = IF lx.current_char = 10 THEN 1 ELSE lx.column + 1,
                    !.pos = lx.pos + 1,
                    !.current_char = IF lx.pos + 1 < lx.length
                                     THEN lx.source[lx.pos + 2] ELSE 0]
    ELSE lx

\* peek reading the character under the cursor
peek_at_cursor(lx) == IF lx.pos < lx.length THEN lx.source[lx.pos + 1] ELSE 0

peek(lx) == IF lx.pos + 1 < lx.length THEN lx.source[lx.pos + 2] ELSE 0

\* while (current_char != '\0' && current_char is one of chars) advance
RECURSIVE advance_while(_, _)
advance_while(lx, chars) ==
    IF lx.current_char # 0 /\ lx.current_char \in chars
    THEN advance_while(advance(lx), chars)
    ELSE lx

\* the digit loop of read_number run with isalnum
DigitsOrLetters == (48..57) \cup (65..90) \cup (97..122)

Digits == 48..57
HexDigits == Digits \cup (65..70) \cup (97..102)
IdentChars == (65..90) \cup (97..122) \cup Digits \cup {95}
\* every value of a non-NUL plain char of the inputs
Chars == 1..127

skip_whitespace(lx) == advance_while(lx, {c \in Chars : isspace(c)})

skip_line_comment(lx) ==
    LET l1 == advance_while(advance(advance(lx)), Chars \ {10})
    IN  IF l1.current_char = 10 THEN advance(l1) ELSE l1

RECURSIVE skip_block_comment_loop(_)
skip_block_comment_loop(lx) ==
    IF lx.current_char = 0 THEN lx
    ELSE IF lx.current_char = 42 /\ peek(lx) = 47 THEN advance(advance(lx))
    ELSE skip_block_comment_loop(advance(lx))

\* skip_block_comment passing the '/' of the opener only
skip_block_comment_from_star(lx) == skip_block_comment_loop(advance(lx))

skip_block_comment(lx) == skip_block_comment_loop(advance(advance(lx)))

\* source[from..to) as a string
Text(lx, from, to) == SubSeq(lx.source, from + 1, to)

(***************************************************************************)
(* lexer.c: the token rules.  Each returns the lexer after the rule and    *)
(* the token.                                                              *)
(***************************************************************************)
read_identifier(lx) ==
    LET l1 == advance_while(lx, IdentChars)
        identifier == Text(lx, lx.pos, l1.pos)
    IN  [lexer |-> l1,
         token |-> create_token(lookup_keyword(identifier), identifier,
                                lx.line, lx.column)]

\* the value of a digit with the letters taken for lower case
DigitValue_lower_case(c) ==
    IF c \in 48..57 THEN c - 48 ELSE c - 87

DigitValue(c) ==
    IF c \in 48..57 THEN c - 48
    ELSE IF c \in 97..102 THEN c - 87
    ELSE c - 55

\* strtoll(str, NULL, base) on a string of digits of that base; the digit
\* strings of the inputs are short, far below the 64-bit limit
RECURSIVE ParseDigits(_, _, _, _)
ParseDigits(str, i, base, acc) ==
    IF i > Len(str) THEN acc
    ELSE ParseDigits(str, i + 1, base, acc * base + DigitValue(str[i]))

\* strtoll(number_str, NULL, 16): the 0x prefix is skipped when a hex digit follows
strtoll16(str) ==
    IF Len(str) >= 3 /\ str[1] = 48 /\ str[2] \in {120, 88}
    THEN ParseDigits(str, 3, 16, 0)
    ELSE 0

atoll(str) == ParseDigits(str, 1, 10, 0)

\* read_number taking the dot whatever follows it
read_number_any_dot(lx) ==
    LET is_hex == lx.current_char = 48 /\ peek(lx) \in {120, 88}
        hex == advance_while(advance(advance(lx)), HexDigits)
        l1 == advance_while(lx, Digits)
        has_frac == l1.current_char = 46
        l2 == IF has_frac THEN advance_while(advance(l1), Digits) ELSE l1
        has_exp == l2.current_char \in {101, 69}
        e1 == advance(l2)
        e2 == IF e1.current_char \in {43, 45} THEN advance(e1) ELSE e1
        l3 == IF has_exp THEN advance_while(e2, Digits) ELSE l2
        out == IF is_hex THEN hex ELSE l3
        is_float == ~is_hex /\ (has_frac \/ has_exp)
        number_str == Text(lx, lx.pos, out.pos)
    IN  [lexer |-> out,
         token |->
            IF is_float
            THEN [create_token("DOUBLE_CONST", number_str, lx.line, lx.column)
                    EXCEPT !.value = <<"double_value", number_str>>]
            ELSE [create_token("INT_CONST", number_str, lx.line, lx.column)
                    EXCEPT !.value = <<"int_value",
                                       IF is_hex THEN strtoll16(number_str)
                                       ELSE atoll(number_str)>>]]

read_number(lx) ==
    LET is_hex == lx.current_char = 48 /\ peek(lx) \in {120, 88}
        hex == advance_while(advance(advance(lx)), HexDigits)
        l1 == advance_while(lx, Digits)
        has_frac == l1.current_char = 46 /\ isdigit(peek(l1))
        l2 == IF has_frac THEN advance_while(advance(l1), Digits) ELSE l1
        has_exp == l2.current_char \in {101, 69}
        e1 == advance(l2)
        e2 == IF e1.current_char \in {43, 45} THEN advance(e1) ELSE e1
        l3 == IF has_exp THEN advance_while(e2, Digits) ELSE l2
        out == IF is_hex THEN hex ELSE l3
        is_float == ~is_hex /\ (has_frac \/ has_exp)
        number_str == Text(lx, lx.pos, out.pos)
    IN  [lexer |-> out,
         token |->
            IF is_float
            THEN [create_token("DOUBLE_CONST", number_str, lx.line, lx.column)
                    EXCEPT !.value = <<"double_value", number_str>>]
            ELSE [create_token("INT_CONST", number_str, lx.line, lx.column)
                    EXCEPT !.value = <<"int_value",
                                       IF is_hex THEN strtoll16(number_str)
                                       ELSE atoll(number_str)>>]]

RECURSIVE read_string_loop(_)
read_string_loop(lx) ==
    IF lx.current_char # 0 /\ lx.current_char # 34
    THEN IF lx.current_char = 92
         THEN LET a == advance(lx)
              IN  read_string_loop(IF a.current_char # 0 THEN advance(a) ELSE a)
         ELSE read_string_loop(advance(lx))
    ELSE lx

\* read_string that takes the first double quote for the closing one
read_string_first_quote(lx) ==
    LET l1 == advance_while(advance(lx), Chars \ {34})
        l2 == advance(l1)
    IN  IF l1.current_char # 34
        THEN [lexer |-> l1,
              token |-> create_token("ERROR", <<"unterminated string">>,
                                     lx.line, lx.column)]
        ELSE [lexer |-> l2,
              token |-> create_token("STRING_CONST", Text(lx, lx.pos, l2.pos),
                                     lx.line, lx.column)]

\* read_string without the test for the closing quote
read_string_unchecked(lx) ==
    LET l1 == read_string_loop(advance(lx))
        l2 == advance(l1)
    IN  [lexer |-> l2,
         token |-> create_token("STRING_CONST", Text(lx, lx.pos, l2.pos),
                                lx.line, lx.column)]

read_string(lx) ==
    LET l1 == read_string_loop(advance(lx))
        l2 == advance(l1)
    IN  IF l1.current_char # 34
        THEN [lexer |-> l1,
              token |-> create_token("ERROR", <<"unterminated string">>,
                                     lx.line, lx.column)]
        ELSE [lexer |-> l2,
              token |-> create_token("STRING_CONST", Text(lx, lx.pos, l2.pos),
                                     lx.line, lx.column)]

\* the switch of read_char on the escaped character
\* the escaped character taken as it stands
unescape_verbatim(c) == c

unescape(c) ==
    CASE c = 110 -> 10
      [] c = 116 -> 9
      [] c = 114 -> 13
      [] c = 92 -> 92
      [] c = 39 -> 39
      [] c = 48 -> 0
      [] OTHER -> c

\* read_char giving up the rest of the input on an unterminated constant
read_char_abort(lx) ==
    LET l1 == advance(lx)
        esc == advance(l1)
        l2 == IF l1.current_char = 92 THEN advance(esc)
              ELSE IF l1.current_char # 0 /\ l1.current_char # 39 THEN advance(l1)
              ELSE l1
        char_value == IF l1.current_char = 92 THEN unescape(esc.current_char)
                      ELSE IF l1.current_char # 0 /\ l1.current_char # 39
                      THEN l1.current_char
                      ELSE 0
        l3 == advance(l2)
    IN  IF l2.current_char # 39
        THEN [lexer |-> advance_while(l2, Chars),
              token |-> create_token("ERROR", <<"unterminated character constant">>,
                                     lx.line, lx.column)]
        ELSE [lexer |-> l3,
              token |-> [create_token("CHAR_CONST", Text(lx, lx.pos, l3.pos),
                                      lx.line, lx.column)
                           EXCEPT !.value = <<"char_value", char_value>>]]

read_char(lx) ==
    LET l1 == advance(lx)
        esc == advance(l1)
        l2 == IF l1.current_char = 92 THEN advance(esc)
              ELSE IF l1.current_char # 0 /\ l1.current_char # 39 THEN advance(l1)
              ELSE l1
        char_value == IF l1.current_char = 92 THEN unescape(esc.current_char)
                      ELSE IF l1.current_char # 0 /\ l1.current_char # 39
                      THEN l1.current_char
                      ELSE 0
        l3 == advance(l2)
    IN  IF l2.current_char # 39
        THEN [lexer |-> l2,
              token |-> create_token("ERROR", <<"unterminated character constant">>,
                                     lx.line, lx.column)]
        ELSE [lexer |-> l3,
              token |-> [create_token("CHAR_CONST", Text(lx, lx.pos, l3.pos),
                                      lx.line, lx.column)
                           EXCEPT !.value = <<"char_value", char_value>>]]

\* the switch of get_next_token on a one-character operator or delimiter
\* the switch with cases for '?' and ':'
single_char_type_ternary(c) ==
    CASE c = 43 -> "PLUS"
      [] c = 45 -> "MINUS"
      [] c = 42 -> "MULTIPLY"
      [] c = 47 -> "DIVIDE"
      [] c = 37 -> "MODULO"
      [] c = 61 -> "ASSIGN"
      [] c = 60 -> "LT"
      [] c = 62 -> "GT"
      [] c = 33 -> "NOT"
      [] c = 59 -> "SEMICOLON"
      [] c = 44 -> "COMMA"
      [] c = 40 -> "LPAREN"
      [] c = 41 -> "RPAREN"
      [] c = 123 -> "LBRACE"
      [] c = 125 -> "RBRACE"
      [] c = 91 -> "LBRACKET"
      [] c = 93 -> "RBRACKET"
      [] c = 63 -> "QUESTION"
      [] c = 58 -> "COLON"
      [] OTHER -> "ERROR"

single_char_type(c) ==
    CASE c = 43 -> "PLUS"
      [] c = 45 -> "MINUS"
      [] c = 42 -> "MULTIPLY"
      [] c = 47 -> "DIVIDE"
      [] c = 37 -> "MODULO"
      [] c = 61 -> "ASSIGN"
      [] c = 60 -> "LT"
      [] c = 62 -> "GT"
      [] c = 33 -> "NOT"
      [] c = 59 -> "SEMICOLON"
      [] c = 44 -> "COMMA"
      [] c = 40 -> "LPAREN"
      [] c = 41 -> "RPAREN"
      [] c = 123 -> "LBRACE"
      [] c = 125 -> "RBRACE"
      [] c = 91 -> "LBRACKET"
      [] c = 93 -> "RBRACKET"
      [] OTHER -> "ERROR"

\* the operator part of get_next_token with the advance of the one-character
\* case done only for the characters the switch knows
scan_operator_stuck(lx) ==
    LET current == lx.current_char
        next == peek(lx)
        two == [lexer |-> advance(advance(lx)), lexeme |-> <<current, next>>]
        type == single_char_type(current)
    IN  IF current = 61 /\ next = 61
        THEN [lexer |-> two.lexer,
              token |-> create_token("EQ", two.lexeme, lx.line, lx.column)]
        ELSE IF current = 33 /\ next = 61
        THEN [lexer |-> two.lexer,
              token |-> create_token("NE", two.lexeme, lx.line, lx.column)]
        ELSE IF current = 60 /\ next = 61
        THEN [lexer |-> two.lexer,
              token |-> create_token("LE", two.lexeme, lx.line, lx.column)]
        ELSE IF current = 62 /\ next = 61
        THEN [lexer |-> two.lexer,
              token |-> create_token("GE", two.lexeme, lx.line, lx.column)]
        ELSE IF current = 38 /\ next = 38
        THEN [lexer |-> two.lexer,
              token |-> create_token("AND", two.lexeme, lx.line, lx.column)]
        ELSE IF current = 124 /\ next = 124
        THEN [lexer |-> two.lexer,
              token |-> create_token("OR", two.lexeme, lx.line, lx.column)]
        ELSE IF type = "ERROR"
        THEN [lexer |-> lx,
              token |-> create_token("ERROR", <<"illegal character", current>>,
                                     lx.line, lx.column)]
        ELSE [lexer |-> advance(lx),
              token |-> create_token(type, <<current>>, lx.line, lx.column)]

\* get_next_token from "char current = lexer->current_char" on
scan_operator(lx) ==
    LET current == lx.current_char
        next == peek(lx)
        two == [lexer |-> advance(advance(lx)), lexeme |-> <<current, next>>]
        type == single_char_type(current)
    IN  IF current = 61 /\ next = 61
        THEN [lexer |-> two.lexer,
              token |-> create_token("EQ", two.lexeme, lx.line, lx.column)]
        ELSE IF current = 33 /\ next = 61
        THEN [lexer |-> two.lexer,
              token |-> create_token("NE", two.lexeme, lx.line, lx.column)]
        ELSE IF current = 60 /\ next = 61
        THEN [lexer |-> two.lexer,
              token |-> create_token("LE", two.lexeme, lx.line, lx.column)]
        ELSE IF current = 62 /\ next = 61
        THEN [lexer |-> two.lexer,
              token |-> create_token("GE", two.lexeme, lx.line, lx.column)]
        ELSE IF current = 38 /\ next = 38
        THEN [lexer |-> two.lexer,
              token |-> create_token("AND", two.lexeme, lx.line, lx.column)]
        ELSE IF current = 124 /\ next = 124
        THEN [lexer |-> two.lexer,
              token |-> create_token("OR", two.lexeme, lx.line, lx.column)]
        ELSE IF type = "ERROR"
        THEN [lexer |-> advance(lx),
              token |-> create_token("ERROR", <<"illegal character", current>>,
                                     lx.line, lx.column)]
        ELSE [lexer |-> advance(lx),
              token |-> create_token(type, <<current>>, lx.line, lx.column)]

\* get_next_token once the lookahead starts a token: the dispatch on its class
scan_token(lx) ==
    IF isalpha(lx.current_char) \/ lx.current_char = 95 THEN read_identifier(lx)
    ELSE IF isdigit(lx.current_char) THEN read_number(lx)
    ELSE IF lx.current_char = 34 THEN read_string(lx)
    ELSE IF lx.current_char = 39 THEN read_char(lx)
    ELSE scan_operator(lx)

\* get_next_token: the loop skips blanks and comments, then one rule runs.
\* skips collects what the loop skipped; start is the cursor where the rule began.
RECURSIVE get_next_token_loop(_, _)
get_next_token_loop(lx, skips) ==
    IF lx.current_char = 0
    THEN [lexer |-> lx, start |-> lx.pos, skips |-> skips,
          token |-> create_token("EOF", <<>>, lx.line, lx.column)]
    ELSE IF isspace(lx.current_char)
    THEN LET l1 == skip_whitespace(lx)
         IN  get_next_token_loop(l1,
                Append(skips, [kind |-> "blank", from |-> lx.pos, to |-> l1.pos]))
    ELSE IF lx.current_char = 47 /\ peek(lx) = 47
    THEN LET l1 == skip_line_comment(lx)
         IN  get_next_token_loop(l1,
                Append(skips, [kind |-> "comment", from |-> lx.pos, to |-> l1.pos]))
    ELSE IF lx.current_char = 47 /\ peek(lx) = 42
    THEN LET l1 == skip_block_comment(lx)
         IN  get_next_token_loop(l1,
                Append(skips, [kind |-> "comment", from |-> lx.pos, to |-> l1.pos]))
    ELSE LET r == scan_token(lx)
         IN  [lexer |-> r.lexer, start |-> lx.pos, skips |-> skips, token |-> r.token]

get_next_token(lx) == get_next_token_loop(lx, <<>>)

(***************************************************************************)
(* nfa_dfa.h, nfa_dfa.c: the structures.                                   *)
(*   NFA       num_states, start_state, final_states (the set of states    *)
(*             whose flag is true), transitions (the list, in order, of    *)
(*             from_state, to_state, symbol); num_transitions is its       *)
(*             length.                                                     *)
(*   StateSet  the sequence states[0..count).                              *)
(*   DFA       transition (the table entries that are not -1, keyed by     *)
(*             <<state, symbol>>), num_states, start_state, final_states   *)
(*             (set), alphabet (sequence); alphabet_size is its length.    *)
(***************************************************************************)
MAX_STATES == 100
MAX_ALPHABET == 128
EPSILON == -1

Trans(from, to, symbol) == [from_state |-> from, to_state |-> to, symbol |-> symbol]

\* the transitions of create_nfa_for_identifier from state `from` on the
\* the loop run with c < hi
RangeTrans_exclusive(from, to, lo, hi) == [i \in 1..(hi - lo) |-> Trans(from, to, lo + i - 1)]

\* characters lo..hi, in the order of the loop
RangeTrans(from, to, lo, hi) == [i \in 1..(hi - lo + 1) |-> Trans(from, to, lo + i - 1)]

\* create_nfa_for_identifier with the digits allowed as a first character
create_nfa_for_identifier_digit_start ==
    [num_states |-> 2, start_state |-> 0, final_states |-> {1},
     transitions |->
        RangeTrans(0, 1, 97, 122) \o RangeTrans(0, 1, 65, 90)
          \o RangeTrans(0, 1, 48, 57) \o <<Trans(0, 1, 95)>>
          \o RangeTrans(1, 1, 97, 122) \o RangeTrans(1, 1, 65, 90)
          \o RangeTrans(1, 1, 48, 57) \o <<Trans(1, 1, 95)>>]

create_nfa_for_identifier ==
    [num_states |-> 2, start_state |-> 0, final_states |-> {1},
     transitions |->
        RangeTrans(0, 1, 97, 122) \o RangeTrans(0, 1, 65, 90) \o <<Trans(0, 1, 95)>>
          \o RangeTrans(1, 1, 97, 122) \o RangeTrans(1, 1, 65, 90)
          \o RangeTrans(1, 1, 48, 57) \o <<Trans(1, 1, 95)>>]

state_set_contains(set, state) == \E i \in 1..Len(set) : set[i] = state

state_set_add(set, state) ==
    IF ~state_set_contains(set, state) /\ Len(set) < MAX_STATES
    THEN Append(set, state)
    ELSE set

\* equality of the arrays, element by element
state_set_equal_ordered(a, b) == a = b

state_set_equal(a, b) ==
    /\ Len(a) = Len(b)
    /\ \A i \in 1..Len(a) : state_set_contains(b, a[i])

\* the loop over nfa->transitions without the test of the symbol
add_targets_any_symbol(n, set, state, symbol) ==
    LET T == n.transitions
        hit(j) == T[j].from_state = state
        appends == {j \in 1..Len(T) :
                      /\ hit(j)
                      /\ ~state_set_contains(set, T[j].to_state)
                      /\ \A k \in 1..(j - 1) : ~(hit(k) /\ T[k].to_state = T[j].to_state)}
        room == MAX_STATES - Len(set)
        count == IF Cardinality(appends) < room THEN Cardinality(appends) ELSE room
    IN  set \o [k \in 1..count |->
                  T[CHOOSE j \in appends :
                        Cardinality({i \in appends : i < j}) = k - 1].to_state]

\* the loop over nfa->transitions of epsilon_closure and move, which calls
\* state_set_add for the target of every transition that leaves `state` on
\* `symbol`: a call appends when the target is not in the set yet, that is at
\* the first such transition for each target the set lacks, while there is room
add_targets(n, set, state, symbol) ==
    LET T == n.transitions
        hit(j) == T[j].from_state = state /\ T[j].symbol = symbol
        appends == {j \in 1..Len(T) :
                      /\ hit(j)
                      /\ ~state_set_contains(set, T[j].to_state)
                      /\ \A k \in 1..(j - 1) : ~(hit(k) /\ T[k].to_state = T[j].to_state)}
        room == MAX_STATES - Len(set)
        count == IF Cardinality(appends) < room THEN Cardinality(appends) ELSE room
    IN  set \o [k \in 1..count |->
                  T[CHOOSE j \in appends :
                        Cardinality({i \in appends : i < j}) = k - 1].to_state]

\* one run of the for loop of epsilon_closure from index i; closure.count is
\* read again at every turn, so states added on the way are visited too
RECURSIVE epsilon_closure_pass(_, _, _)
epsilon_closure_pass(n, closure, i) ==
    IF i > Len(closure) THEN closure
    ELSE epsilon_closure_pass(n, add_targets(n, closure, closure[i], EPSILON), i + 1)

RECURSIVE epsilon_closure(_, _)
epsilon_closure(n, states) ==
    LET closure == epsilon_closure_pass(n, states, 1)
    IN  IF Len(closure) > Len(states) THEN epsilon_closure(n, closure) ELSE closure

RECURSIVE move_from(_, _, _, _, _)
move_from(n, states, symbol, i, result) ==
    IF i > Len(states) THEN result
    ELSE move_from(n, states, symbol, i + 1,
                   add_targets(n, result, states[i], symbol))

move(n, states, symbol) == move_from(n, states, symbol, 1, <<>>)

\* index (from 0) of the first set equal to target, or -1
find_state_set_index(sets, target) ==
    LET hits == {i \in 1..Len(sets) : state_set_equal(sets[i], target)}
    IN  IF hits = {} THEN -1
        ELSE (CHOOSE i \in hits : \A k \in hits : i <= k) - 1

\* the alphabet nfa_to_dfa builds: a-z, A-Z, 0-9, underscore
nfa_to_dfa_alphabet ==
    [i \in 1..26 |-> 96 + i] \o [i \in 1..26 |-> 64 + i] \o [i \in 1..10 |-> 47 + i]
      \o <<95>>

\* dfa->transition[state][symbol]
Delta(d, state, symbol) ==
    IF <<state, symbol>> \in DOMAIN d.transition
    THEN d.transition[<<state, symbol>>]
    ELSE -1

\* table with table[state][symbol] = target
SetDelta(table, state, symbol, target) ==
    [k \in DOMAIN table \cup {<<state, symbol>>} |->
        IF k = <<state, symbol>> THEN target ELSE table[k]]

\* nfa_to_dfa: one turn of the for loop over the alphabet, for the i-th symbol
\* and the state taken from the worklist.  acc holds dfa_states, unmarked and
\* the table.  A new state set found when dfa_states is full is written past
\* the end of the array: overflow is set and the loop is cut there.
subset_symbol(n, current_dfa_state, i, acc) ==
    LET symbol == nfa_to_dfa_alphabet[i]
        moved == move(n, acc.dfa_states[current_dfa_state + 1], symbol)
        next_set == epsilon_closure(n, moved)
        found == find_state_set_index(acc.dfa_states, next_set)
        num_dfa_states == Len(acc.dfa_states)
    IN  IF Len(moved) = 0 THEN acc
        ELSE IF found # -1
        THEN [acc EXCEPT !.transition =
                 SetDelta(acc.transition, current_dfa_state, symbol, found)]
        ELSE IF num_dfa_states >= MAX_STATES
        THEN [acc EXCEPT !.dfa_states = Append(acc.dfa_states, next_set),
                         !.overflow = TRUE]
        ELSE [acc EXCEPT !.dfa_states = Append(acc.dfa_states, next_set),
                         !.unmarked = Append(acc.unmarked, num_dfa_states),
                         !.transition =
                            SetDelta(acc.transition, current_dfa_state, symbol,
                                     num_dfa_states)]

\* the for loop over the symbols lo..hi of the alphabet, unfolded by halves
\* (lo..mid, then mid+1..hi), which keeps the order of the turns
RECURSIVE subset_symbols(_, _, _, _, _)
subset_symbols(n, current_dfa_state, lo, hi, acc) ==
    IF lo > hi \/ acc.overflow THEN acc
    ELSE IF lo = hi THEN subset_symbol(n, current_dfa_state, lo, acc)
    ELSE LET mid == (lo + hi) \div 2
         IN  subset_symbols(n, current_dfa_state, mid + 1, hi,
                            subset_symbols(n, current_dfa_state, lo, mid, acc))

\* the DFA states that hold final states of the NFA only
dfa_final_states_all(n, sets) ==
    {i \in 0..(Len(sets) - 1) :
        \A j \in 1..Len(sets[i + 1]) : sets[i + 1][j] \in n.final_states}

\* nfa_to_dfa: the DFA states that hold a final state of the NFA
dfa_final_states(n, sets) ==
    {i \in 0..(Len(sets) - 1) :
        \E j \in 1..Len(sets[i + 1]) : sets[i + 1][j] \in n.final_states}

(***************************************************************************)
(* minimize_dfa.  partition[s] is kept at index s + 1 of a sequence.       *)
(***************************************************************************)
initial_partition(d) ==
    [i \in 1..d.num_states |-> IF (i - 1) \in d.final_states THEN 1 ELSE 0]

\* s1 = states_in_partition[0]: the states of block p are collected in
\* increasing order, the first is the least
first_in_partition(part, p) ==
    CHOOSE s1 \in 0..(Len(part) - 1) :
        /\ part[s1 + 1] = p
        /\ \A i \in 0..(Len(part) - 1) : part[i + 1] = p => s1 <= i

\* distinguishable without the test "exactly one of the two has a transition"
distinguishable_by_target_only(d, part, s1, s2) ==
    \E j \in 1..Len(d.alphabet) :
        LET next1 == Delta(d, s1, d.alphabet[j])
            next2 == Delta(d, s2, d.alphabet[j])
        IN  /\ next1 # -1
            /\ next2 # -1
            /\ part[next1 + 1] # part[next2 + 1]

distinguishable(d, part, s1, s2) ==
    \E j \in 1..Len(d.alphabet) :
        LET next1 == Delta(d, s1, d.alphabet[j])
            next2 == Delta(d, s2, d.alphabet[j])
        IN  \/ (next1 = -1) # (next2 = -1)
            \/ /\ next1 # -1
               /\ next2 # -1
               /\ part[next1 + 1] # part[next2 + 1]

\* the states the pass moves: those distinguishable from the first member of
\* their block in the partition the pass began with
split_states(d, part) ==
    {s2 \in 0..(Len(part) - 1) :
        distinguishable(d, part, first_in_partition(part, part[s2 + 1]), s2)}

\* how many of the states split the pass has moved when it comes to s2: the
\* loops go through the blocks in increasing order and through each block in
\* increasing order
moved_before(part, split, s2) ==
    Cardinality({s \in split :
                    \/ part[s + 1] < part[s2 + 1]
                    \/ part[s + 1] = part[s2 + 1] /\ s < s2})

\* one turn of the while loop that forgets to count the blocks it made
refine_pass_stale_count(d, part, num) ==
    LET split == split_states(d, part)
    IN  [new_partition |->
             [i \in 1..Len(part) |->
                 IF (i - 1) \in split THEN num + moved_before(part, split, i - 1)
                 ELSE part[i]],
         next_partition_id |-> num,
         changed |-> split # {}]

\* one turn of the while loop: every moved state gets the next free block id,
\* new_partition[s2] = next_partition_id++
refine_pass(d, part, num) ==
    LET split == split_states(d, part)
    IN  [new_partition |->
             [i \in 1..Len(part) |->
                 IF (i - 1) \in split THEN num + moved_before(part, split, i - 1)
                 ELSE part[i]],
         next_partition_id |-> num + Cardinality(split),
         changed |-> split # {}]

\* the largest state of block p with a transition on symbol: it is the last
\* to write min_dfa->transition[p][symbol]
LastWriter(d, part, p, symbol) ==
    LET writers == {i \in 0..(d.num_states - 1) :
                       part[i + 1] = p /\ Delta(d, i, symbol) # -1}
    IN  CHOOSE i \in writers : \A k \in writers : k <= i

\* the construction of min_dfa from the final partition
build_min_dfa(d, part, num) ==
    [num_states |-> num,
     start_state |-> part[d.start_state + 1],
     alphabet |-> d.alphabet,
     final_states |-> {part[i + 1] : i \in d.final_states \cap (0..(d.num_states - 1))},
     transition |->
        [k \in {<<part[key[1] + 1], key[2]>> :
                   key \in {x \in DOMAIN d.transition :
                               /\ x[1] < d.num_states
                               /\ \E j \in 1..Len(d.alphabet) : d.alphabet[j] = x[2]}}
            |-> part[Delta(d, LastWriter(d, part, k[1], k[2]), k[2]) + 1]]]

\* the construction writes min_dfa->final_states[p] or min_dfa->transition[p][..]
\* for a block id p the arrays have no row for
build_overflow(d, part) ==
    \E i \in 0..(d.num_states - 1) :
        /\ part[i + 1] >= MAX_STATES
        /\ \/ i \in d.final_states
           \/ \E j \in 1..Len(d.alphabet) : Delta(d, i, d.alphabet[j]) # -1

RECURSIVE refine_loop(_, _, _)
refine_loop(d, part, num) ==
    LET r == refine_pass(d, part, num)
    IN  IF r.changed THEN refine_loop(d, r.new_partition, r.next_partition_id)
        ELSE [partition |-> r.new_partition, num_partitions |-> r.next_partition_id]

\* minimize_dfa(d) writes outside the tables of its result
minimize_overflow(d) ==
    build_overflow(d, refine_loop(d, initial_partition(d), 2).partition)

minimize_dfa(d) ==
    LET r == refine_loop(d, initial_partition(d), 2)
    IN  build_min_dfa(d, r.partition, r.num_partitions)

(***************************************************************************)
(* The scanning session of perform_lexical_analysis: create_lexer, then    *)
(* get_next_token again and again.                                         *)
(***************************************************************************)
\* characters of the enumerated source texts:
\* newline, blank, '"', quote, '*', '/', '1', '=', '?', backslash, 'a'
CharPool == {10, 32, 34, 39, 42, 47, 49, 61, 63, 92, 97}

ExampleSources ==
    { <<49, 50, 51, 97, 98, 99>>,                         \* 123abc
      <<48, 120, 49, 65, 50, 66>>,                        \* 0x1A2B
      <<49, 46, 50, 51, 101, 45, 53>>,                    \* 1.23e-5
      <<34, 72, 101, 108, 108, 111>>,                     \* "Hello
      <<34, 92, 110, 92, 34, 120, 34, 97>>,               \* "\n\"x"a
      <<114, 101, 116, 117, 114, 110, 105, 110, 103>>,    \* returning
      <<60, 61>>,                                         \* <=
      <<53, 46>>,                                         \* 5.
      \* count >= 10 && count <= 20;
      <<99, 111, 117, 110, 116, 32, 62, 61, 32, 49, 48, 32, 38, 38, 32,
        99, 111, 117, 110, 116, 32, 60, 61, 32, 50, 48, 59>>,
      \* char letter = 'A';
      <<99, 104, 97, 114, 32, 108, 101, 116, 116, 101, 114, 32, 61, 32,
        39, 65, 39, 59>>,
      \* /* c */ if (x != 0xFF) // t<newline>
      <<47, 42, 32, 99, 32, 42, 47, 32, 105, 102, 32, 40, 120, 32, 33, 61,
        32, 48, 120, 70, 70, 41, 32, 47, 47, 32, 116, 10>>,
      \* "a\"b" '\n' | &
      <<34, 97, 92, 34, 98, 34, 32, 39, 92, 110, 39, 32, 124, 32, 38>> }

\* the words of length at most n over the characters of pool
WordsOver(pool, n) == UNION {[1..k -> pool] : k \in 0..n}

\* characters of numbers: '0', '1', '.', 'e', 'x', '-', 'A'
NumberPool == {48, 49, 46, 101, 120, 45, 65}
\* characters of the two-character operators: '=', '!', '<', '>', '&', '|'
OperatorPool == {61, 33, 60, 62, 38, 124}
\* characters of strings: '"', backslash, 'a', newline
StringPool == {34, 92, 97, 10}
\* characters of comments: '/', '*', 'a', newline
CommentPool == {47, 42, 97, 10}

\* a quote, then nothing, one character, a backslash or an escaped character,
\* then a closing quote or not
CharLiteralSources ==
    {<<39>> \o body \o tail :
        body \in {<<>>, <<92>>} \cup {<<c>> : c \in Chars} \cup {<<92, c>> : c \in Chars},
        tail \in {<<>>, <<39>>, <<97>>, <<97, 39>>, <<39, 39>>}}

\* every character alone, doubled, before '=', and on a second line
SingleCharSources ==
    UNION {{pre \o <<c>> \o post :
                pre \in {<<>>, <<97, 10, 32>>}, post \in {<<>>, <<c>>, <<61>>}}
           : c \in Chars}

\* every keyword: alone, cut short by one character, with a character before
\* or after it
KeywordSources ==
    UNION {{k, SubSeq(k, 1, Len(k) - 1)}
             \cup {k \o <<c>> : c \in {115, 95, 49, 32, 40}}
             \cup {<<c>> \o k : c \in {115, 95, 49, 32, 73}}
           : k \in {keywords[i][1] : i \in 1..Len(keywords)}}

\* more numbers: 0X1f, 1E+1, 1.1e1, 0xFF, 00x1, 1e, 12else, 0.5.5, 0xg
NumberSources ==
    { <<48, 88, 49, 102>>, <<49, 69, 43, 49>>, <<49, 46, 49, 101, 49>>,
      <<48, 120, 70, 70>>, <<48, 48, 120, 49>>, <<49, 101>>,
      <<49, 50, 101, 108, 115, 101>>, <<48, 46, 53, 46, 53>>, <<48, 120, 103>> }

Sources ==
    WordsOver(CharPool, MaxSrcLen)
      \cup WordsOver(NumberPool, MaxSrcLen + 1)
      \cup WordsOver(OperatorPool, MaxSrcLen)
      \cup WordsOver(StringPool, MaxSrcLen + 2)
      \cup WordsOver(CommentPool, MaxSrcLen + 2)
      \cup CharLiteralSources \cup SingleCharSources \cup KeywordSources
      \cup NumberSources \cup ExampleSources

\* the EOF tokens returned so far
EofCount == Cardinality({i \in 1..Len(tokens) : tokens[i].type = "EOF"})

LexIdle ==
    /\ pc = "idle"
    /\ nfa = <<>>
    /\ dfa_states = <<>>
    /\ unmarked = <<>>
    /\ dfa = <<>>
    /\ partition = <<>>
    /\ num_partitions = 0
    /\ passes = <<>>
    /\ min_dfa = <<>>
    /\ min2_dfa = <<>>

LexInit ==
    /\ \E source \in Sources : lexer = create_lexer(source)
    /\ tokens = <<>>
    /\ skipped = <<>>
    /\ LexIdle

\* One call of get_next_token.  The caller's loop stops at the first EOF token;
\* MaxEofCalls further calls are made to see what they return.
GetNextToken ==
    /\ EofCount <= MaxEofCalls
    /\ Len(tokens) <= lexer.length + MaxEofCalls
    /\ LET r == get_next_token(lexer)
       IN  /\ lexer' = r.lexer
           /\ tokens' = Append(tokens,
                    [type |-> r.token.type, lexeme |-> r.token.lexeme,
                     line |-> r.token.line, column |-> r.token.column,
                     value |-> r.token.value,
                     call_pos |-> lexer.pos, start |-> r.start, end |-> r.lexer.pos])
           /\ skipped' = skipped \o r.skips
    /\ UNCHANGED autvars

LexNext == GetNextToken

LexSpec == LexInit /\ [][LexNext]_vars

(***************************************************************************)
(* The automaton pipeline of show_minimized_dfa: an NFA, nfa_to_dfa,        *)
(* minimize_dfa; then minimize_dfa once more on its own result.            *)
(***************************************************************************)
\* symbols of the enumerated NFAs: epsilon, 'a', 'b'
SymPool == {EPSILON, 97, 98}

TransUniverse(n) ==
    {Trans(f, t, c) : f \in 0..(n - 1), t \in 0..(n - 1), c \in SymPool}

RECURSIVE TransLists(_, _)
TransLists(n, len) ==
    IF len = 0 THEN {<<>>}
    ELSE {<<t>> \o r : t \in TransUniverse(n), r \in TransLists(n, len - 1)}

\* every NFA with start state 0 whose states and transitions number at most
\* MaxNfaSize together
SmallNFAs ==
    UNION {
      {[num_states |-> n, start_state |-> 0, final_states |-> F, transitions |-> T] :
          F \in SUBSET (0..(n - 1)),
          T \in UNION {TransLists(n, len) : len \in 0..(MaxNfaSize - n)}} :
      n \in 1..MaxNfaSize}

\* (a|b)*a(a|b)^(k-1): its subset construction has 2^k states
LastK(k) ==
    [num_states |-> k + 1, start_state |-> 0, final_states |-> {k},
     transitions |->
        <<Trans(0, 0, 97), Trans(0, 0, 98), Trans(0, 1, 97)>>
          \o [i \in 1..(2 * (k - 1)) |->
                 Trans((i + 1) \div 2, (i + 1) \div 2 + 1, IF i % 2 = 1 THEN 97 ELSE 98)]]

ExampleNFAs ==
    { create_nfa_for_identifier,
      \* '+' then any number of "a+": a symbol nfa_to_dfa's alphabet lacks
      [num_states |-> 2, start_state |-> 0, final_states |-> {1},
       transitions |-> <<Trans(0, 1, 43), Trans(1, 0, 97)>>],
      \* start state 2, epsilon moves in a cycle, targets listed in two orders
      [num_states |-> 3, start_state |-> 2, final_states |-> {0},
       transitions |-> <<Trans(2, 1, EPSILON), Trans(1, 2, EPSILON), Trans(2, 0, 97),
                         Trans(1, 1, 97), Trans(0, 1, 98), Trans(0, 2, 98),
                         Trans(2, 0, 97)>>],
      \* aa | ba: the states after a and after b accept the same words
      [num_states |-> 4, start_state |-> 0, final_states |-> {3},
       transitions |-> <<Trans(0, 1, 97), Trans(0, 2, 98), Trans(1, 3, 97),
                         Trans(2, 3, 97)>>],
      \* a+ with two accepting states that accept the same words
      [num_states |-> 3, start_state |-> 0, final_states |-> {1, 2},
       transitions |-> <<Trans(0, 1, 97), Trans(1, 2, 97), Trans(2, 1, 97)>>],
      \* (a|b)+ with one accepting state for each last letter
      [num_states |-> 3, start_state |-> 0, final_states |-> {1, 2},
       transitions |-> <<Trans(0, 1, 97), Trans(0, 2, 98), Trans(1, 1, 97),
                         Trans(1, 2, 98), Trans(2, 1, 97), Trans(2, 2, 98)>>],
      \* a*: epsilon moves in a row, listed last first, with a shortcut
      [num_states |-> 4, start_state |-> 0, final_states |-> {3},
       transitions |-> <<Trans(2, 3, EPSILON), Trans(1, 2, EPSILON),
                         Trans(0, 1, EPSILON), Trans(0, 2, EPSILON),
                         Trans(3, 3, 97)>>],
      \* (a*)baa with two states for a*: the block is split, the two are kept together
      [num_states |-> 5, start_state |-> 0, final_states |-> {4},
       transitions |-> <<Trans(0, 1, 97), Trans(1, 0, 97), Trans(0, 2, 98),
                         Trans(1, 2, 98), Trans(2, 3, 97), Trans(3, 4, 97)>>] }
      \cup {LastK(k) : k \in 1..MaxK}

NFAInputs == SmallNFAs \cup ExampleNFAs

\* a, aa, ... : k states in a row, none of them final
Chain(k) ==
    [num_states |-> k, start_state |-> 0, final_states |-> {},
     transitions |-> [i \in 1..(k - 1) |-> Trans(i - 1, i, 97)]]

\* the chain whose DFA has a state for every row of the tables, and the
\* shortest chain with a transition
FullNFAs == {Chain(2), Chain(MAX_STATES)}

AutIdle ==
    /\ lexer = create_lexer(<<>>)
    /\ tokens = <<>>
    /\ skipped = <<>>

AutInit ==
    /\ pc = "nfa"
    /\ nfa \in NFAInputs
    /\ dfa_states = <<>>
    /\ unmarked = <<>>
    /\ dfa = <<>>
    /\ partition = <<>>
    /\ num_partitions = 0
    /\ passes = <<>>
    /\ min_dfa = <<>>
    /\ min2_dfa = <<>>
    /\ AutIdle

\* nfa_to_dfa up to the while loop: empty table, alphabet, start set, worklist
NfaToDfaBegin ==
    /\ pc = "nfa"
    /\ dfa' = [transition |-> <<>>, num_states |-> 0, start_state |-> 0,
               final_states |-> {}, alphabet |-> nfa_to_dfa_alphabet]
    /\ dfa_states' = <<epsilon_closure(nfa, <<nfa.start_state>>)>>
    /\ unmarked' = <<0>>
    /\ pc' = "subset"
    /\ UNCHANGED <<nfa, partition, num_partitions, passes, min_dfa, min2_dfa, lexvars>>

\* one turn of the while loop of nfa_to_dfa.  After a write past the end of
\* dfa_states the behaviour of the program is undefined: the model stops there,
\* as it does after a write past the end of the tables of min_dfa.
NfaToDfaStep ==
    /\ pc = "subset"
    /\ Len(unmarked) > 0
    /\ LET current_dfa_state == unmarked[Len(unmarked)]
           r == subset_symbols(nfa, current_dfa_state, 1, Len(nfa_to_dfa_alphabet),
                    [dfa_states |-> dfa_states,
                     unmarked |-> SubSeq(unmarked, 1, Len(unmarked) - 1),
                     transition |-> dfa.transition,
                     overflow |-> FALSE])
       IN  /\ dfa_states' = r.dfa_states
           /\ unmarked' = r.unmarked
           /\ dfa' = [dfa EXCEPT !.transition = r.transition]
           /\ pc' = IF r.overflow THEN "undefined" ELSE "subset"
    /\ UNCHANGED <<nfa, partition, num_partitions, passes, min_dfa, min2_dfa, lexvars>>

\* nfa_to_dfa after the loop: the state count and the final states
NfaToDfaEnd ==
    /\ pc = "subset"
    /\ Len(unmarked) = 0
    /\ dfa' = [dfa EXCEPT !.num_states = Len(dfa_states),
                          !.final_states = dfa_final_states(nfa, dfa_states)]
    /\ pc' = "dfa"
    /\ UNCHANGED <<nfa, dfa_states, unmarked, partition, num_partitions, passes,
                   min_dfa, min2_dfa, lexvars>>

\* minimize_dfa(dfa): the initial partition
MinimizeBegin ==
    /\ pc = "dfa"
    /\ partition' = initial_partition(dfa)
    /\ num_partitions' = 2
    /\ passes' = <<>>
    /\ pc' = "refine"
    /\ UNCHANGED <<nfa, dfa_states, unmarked, dfa, min_dfa, min2_dfa, lexvars>>

\* the while loop left after its first turn
MinimizePass_once ==
    /\ pc = "refine"
    /\ LET r == refine_pass(dfa, partition, num_partitions)
       IN  /\ partition' = r.new_partition
           /\ num_partitions' = r.next_partition_id
           /\ passes' = Append(passes, [before |-> num_partitions,
                                        after |-> r.next_partition_id,
                                        changed |-> r.changed])
           /\ pc' = "build"
    /\ UNCHANGED <<nfa, dfa_states, unmarked, dfa, min_dfa, min2_dfa, lexvars>>

\* minimize_dfa(dfa): one turn of the while loop
MinimizePass ==
    /\ pc = "refine"
    /\ LET r == refine_pass(dfa, partition, num_partitions)
       IN  /\ partition' = r.new_partition
           /\ num_partitions' = r.next_partition_id
           /\ passes' = Append(passes, [before |-> num_partitions,
                                        after |-> r.next_partition_id,
                                        changed |-> r.changed])
           /\ pc' = IF r.changed THEN "refine" ELSE "build"
    /\ UNCHANGED <<nfa, dfa_states, unmarked, dfa, min_dfa, min2_dfa, lexvars>>

\* the construction of the result written over the argument as well
MinimizeEnd_in_place ==
    /\ pc = "build"
    /\ min_dfa' = build_min_dfa(dfa, partition, num_partitions)
    /\ dfa' = min_dfa'
    /\ pc' = "min"
    /\ UNCHANGED <<nfa, dfa_states, unmarked, partition, num_partitions, passes,
                   min2_dfa, lexvars>>

\* minimize_dfa(dfa): the construction of the result
MinimizeEnd ==
    /\ pc = "build"
    /\ IF build_overflow(dfa, partition)
       THEN min_dfa' = min_dfa /\ pc' = "undefined"
       ELSE min_dfa' = build_min_dfa(dfa, partition, num_partitions) /\ pc' = "min"
    /\ UNCHANGED <<nfa, dfa_states, unmarked, dfa, partition, num_partitions, passes,
                   min2_dfa, lexvars>>

\* minimize_dfa(min_dfa)
MinimizeAgain ==
    /\ pc = "min"
    /\ IF minimize_overflow(min_dfa)
       THEN min2_dfa' = min2_dfa /\ pc' = "undefined"
       ELSE min2_dfa' = minimize_dfa(min_dfa) /\ pc' = "done"
    /\ UNCHANGED <<nfa, dfa_states, unmarked, dfa, partition, num_partitions, passes,
                   min_dfa, lexvars>>

AutNext ==
    \/ NfaToDfaBegin
    \/ NfaToDfaStep
    \/ NfaToDfaEnd
    \/ MinimizeBegin
    \/ MinimizePass
    \/ MinimizeEnd
    \/ MinimizeAgain

AutSpec == AutInit /\ [][AutNext]_vars

\* the pipeline on the NFAs that fill the tables
AutFullInit ==
    /\ pc = "nfa"
    /\ nfa \in FullNFAs
    /\ dfa_states = <<>>
    /\ unmarked = <<>>
    /\ dfa = <<>>
    /\ partition = <<>>
    /\ num_partitions = 0
    /\ passes = <<>>
    /\ min_dfa = <<>>
    /\ min2_dfa = <<>>
    /\ AutIdle

AutFullSpec == AutFullInit /\ [][AutNext]_vars

\* the while loop of minimize_dfa runs on by itself: a pass that can be made is
\* made
\* only NFAs with at most MaxLiveTransitions transitions
AutLiveInit ==
    /\ AutInit
    /\ Len(nfa.transitions) <= MaxLiveTransitions

AutLiveSpec == AutLiveInit /\ [][AutNext]_vars /\ WF_vars(MinimizePass)

(***************************************************************************)
(* What an automaton accepts.                                              *)
(***************************************************************************)
\* the words of length at most k over the symbols S
Words(S, k) == UNION {[1..m -> S] : m \in 0..k}

TransSet(n) == {n.transitions[j] : j \in 1..Len(n.transitions)}

\* the states reachable from S by epsilon transitions alone
RECURSIVE NfaEpsReach(_, _)
NfaEpsReach(n, S) ==
    LET more == {t.to_state : t \in {x \in TransSet(n) :
                                        x.from_state \in S /\ x.symbol = EPSILON}}
    IN  IF more \subseteq S THEN S ELSE NfaEpsReach(n, S \cup more)

\* the states the NFA can be in after the letters i.. of w, starting in S
RECURSIVE NfaRun(_, _, _, _)
NfaRun(n, S, w, i) ==
    IF i > Len(w) THEN S
    ELSE NfaRun(n,
            NfaEpsReach(n, {t.to_state : t \in {x \in TransSet(n) :
                                        x.from_state \in S /\ x.symbol = w[i]}}),
            w, i + 1)

NfaAccepts(n, w) ==
    NfaRun(n, NfaEpsReach(n, {n.start_state}), w, 1) \cap n.final_states # {}

\* the symbols on which the NFA has transitions
NfaSymbols(n) == {t.symbol : t \in TransSet(n)} \ {EPSILON}

\* the table read with -1 as the dead end it stands for
Step(d, state, symbol) == IF state = -1 THEN -1 ELSE Delta(d, state, symbol)

RECURSIVE DfaRun(_, _, _, _)
DfaRun(d, state, w, i) ==
    IF i > Len(w) THEN state ELSE DfaRun(d, Step(d, state, w[i]), w, i + 1)

DfaAccepts(d, w) == DfaRun(d, d.start_state, w, 1) \in d.final_states

AlphabetOf(d) == {d.alphabet[j] : j \in 1..Len(d.alphabet)}

\* the symbols of the alphabet on which the table has an entry
UsedSymbols(d) == {k[2] : k \in DOMAIN d.transition} \cap AlphabetOf(d)

\* the pairs of states the two automata reach on a common word
RECURSIVE PairReach(_, _, _, _)
PairReach(d1, d2, syms, R) ==
    LET more == {<<Step(d1, p[1], c), Step(d2, p[2], c)>> : p \in R, c \in syms}
    IN  IF more \subseteq R THEN R ELSE PairReach(d1, d2, syms, R \cup more)

\* d1 and d2 accept the same words over their alphabets: no word leads one of
\* them to a final state and the other not
SameLanguage(d1, d2) ==
    \A p \in PairReach(d1, d2, AlphabetOf(d1) \cup AlphabetOf(d2),
                       {<<d1.start_state, d2.start_state>>}) :
        (p[1] \in d1.final_states) <=> (p[2] \in d2.final_states)

\* the states reachable from the start state
RECURSIVE Reachable(_, _)
Reachable(d, R) ==
    LET more == {Step(d, q, c) : q \in R, c \in UsedSymbols(d)} \ {-1}
    IN  IF more \subseteq R THEN R ELSE Reachable(d, R \cup more)

\* the pairs of states (-1 the dead end among them) told apart by some word
RECURSIVE Apart(_, _)
Apart(d, A) ==
    LET Q == (0..(d.num_states - 1)) \cup {-1}
        more == {p \in (Q \X Q) \ A :
                    \E c \in UsedSymbols(d) : <<Step(d, p[1], c), Step(d, p[2], c)>> \in A}
    IN  IF more = {} THEN A ELSE Apart(d, A \cup more)

\* the fewest states a DFA for the language of d can have: one for every class
\* of reachable states that accept the same non-empty set of words, and one
\* state at least
MinimalStateCount(d) ==
    LET Q == (0..(d.num_states - 1)) \cup {-1}
        apart == Apart(d, {p \in Q \X Q :
                             (p[1] \in d.final_states) # (p[2] \in d.final_states)})
        live == {q \in Reachable(d, {d.start_state}) : <<q, -1>> \in apart}
        classes == {{r \in live : <<q, r>> \notin apart} : q \in live}
    IN  IF live = {} THEN 1 ELSE Cardinality(classes)

(***************************************************************************)
(* Properties of the automaton toolkit.                                    *)
(***************************************************************************)
\* nfa_to_dfa has returned dfa
DfaBuilt == pc \in {"dfa", "refine", "build", "min", "done"}
\* minimize_dfa(dfa) has returned min_dfa
MinBuilt == pc \in {"min", "done"}

\* C1: minimize_dfa(D) has the fewest states of all DFAs that accept the
\* language of D.
C1_MinimizeGivesFewestStates ==
    MinBuilt => min_dfa.num_states = MinimalStateCount(dfa)

\* C2: minimize_dfa(minimize_dfa(D)) has as many states as minimize_dfa(D).
C2_MinimizeIdempotent ==
    pc = "done" => min2_dfa.num_states = min_dfa.num_states

\* symbols of the words tried on the automata: 'a', 'b', '0'
WordSymbols == {97, 98, 48}

\* m accepts what d accepts, over the same alphabet
SameAutomatonLanguage(d, m) ==
    /\ m.alphabet = d.alphabet
    /\ SameLanguage(d, m)
    /\ \A w \in Words(WordSymbols \cap AlphabetOf(d), MaxWordLen) :
          DfaAccepts(m, w) <=> DfaAccepts(d, w)

\* C3: minimize_dfa(D) accepts a word over D's alphabet iff D accepts it, and
\* has D's alphabet; for D the result of nfa_to_dfa and for D the result of
\* minimize_dfa.
C3_MinimizeKeepsLanguage ==
    /\ MinBuilt => SameAutomatonLanguage(dfa, min_dfa)
    /\ pc = "done" => SameAutomatonLanguage(min_dfa, min2_dfa)

\* C3 witness: two states of D were merged and D accepts words of every length
\* up to three
C3_Witness ==
    /\ pc = "done"
    /\ \E i, j \in 1..Len(partition) : i # j /\ partition[i] = partition[j]
    /\ \E w \in Words(WordSymbols, MaxWordLen) : Len(w) = 3 /\ DfaAccepts(dfa, w)
    /\ \E w \in Words(WordSymbols, MaxWordLen) : ~DfaAccepts(dfa, w)

\* C4: the DFA nfa_to_dfa returns accepts a word over the symbols of the
\* NFA's transitions iff the NFA accepts it.
C4_DfaEquivalentToNfa ==
    DfaBuilt =>
        \A w \in Words(NfaSymbols(nfa), MaxWordLen) :
            DfaAccepts(dfa, w) <=> NfaAccepts(nfa, w)

\* [A-Za-z_][A-Za-z_0-9]*
IsIdentifier(w) ==
    /\ Len(w) >= 1
    /\ w[1] \in (65..90) \cup (97..122) \cup {95}
    /\ \A i \in 1..Len(w) : w[i] \in (65..90) \cup (97..122) \cup (48..57) \cup {95}

\* the words over 'a', 'Z', '0', '_', '+' up to MaxWordLen, and every
\* character alone and after 'a', '0', '_'
IdentifierProbes ==
    Words({97, 90, 48, 95, 43}, MaxWordLen)
      \cup {p \o <<c>> : p \in {<<>>, <<97>>, <<48>>, <<95>>}, c \in 1..(MAX_ALPHABET - 1)}

\* C5: nfa_to_dfa(create_nfa_for_identifier()) accepts exactly the identifiers
\* [A-Za-z_][A-Za-z_0-9]*; minimize_dfa of it accepts the same language and
\* has no more states.
C5_IdentifierAutomata ==
    nfa = create_nfa_for_identifier =>
        /\ DfaBuilt => \A w \in IdentifierProbes : DfaAccepts(dfa, w) <=> IsIdentifier(w)
        /\ MinBuilt =>
              /\ \A w \in IdentifierProbes : DfaAccepts(min_dfa, w) <=> IsIdentifier(w)
              /\ SameLanguage(dfa, min_dfa)
              /\ min_dfa.num_states <= dfa.num_states

\* C5 witness: the identifier DFA was built and minimized, and both accept _0
C5_Witness ==
    /\ nfa = create_nfa_for_identifier
    /\ MinBuilt
    /\ DfaAccepts(dfa, <<95, 48>>)
    /\ DfaAccepts(min_dfa, <<95, 48>>)

\* C6: nfa_to_dfa never holds more DFA states than 2^(states of the NFA), and
\* never more than the registry and the worklist have room for (MAX_STATES).
C6_RegistryWithinCapacity ==
    /\ Len(dfa_states) <= 2 ^ nfa.num_states
    /\ Len(dfa_states) <= MAX_STATES
    /\ Len(unmarked) <= MAX_STATES
    /\ pc # "undefined"

\* C23: nfa_to_dfa leaves the NFA it is given as it was, and minimize_dfa the
\* DFA it is given: states, start state, final states, transitions and
\* alphabet are the same after every step of the call that has defined
\* behaviour, for minimize_dfa(dfa) and for minimize_dfa(min_dfa); what is
\* returned is held apart from the argument.
C23_ArgumentsUnchanged ==
    [][pc' # "undefined" =>
          /\ nfa' = nfa
          /\ pc \in {"dfa", "refine", "build", "min"} => dfa' = dfa
          /\ pc = "min" => min_dfa' = min_dfa]_vars

\* C23 witness: both calls of minimize_dfa have returned for a DFA of three
\* states or more whose minimized form has fewer
C23_Witness ==
    /\ pc = "done"
    /\ dfa.num_states >= 3
    /\ min_dfa.num_states < dfa.num_states
    /\ min_dfa # dfa

\* C24: create_nfa_for_identifier gives an NFA of two states, start state 0,
\* state 1 the only final state, with the transitions 0 -> 1 on a-z, A-Z and
\* '_' and 1 -> 1 on a-z, A-Z, 0-9 and '_', each once, and no other: none
\* from 0 on a digit, none on epsilon, every endpoint below the state count.
C24_IdentifierNfaShape ==
    LET n == create_nfa_for_identifier
        first == (97..122) \cup (65..90) \cup {95}
        rest == first \cup (48..57)
    IN  /\ n.num_states = 2
        /\ n.start_state = 0
        /\ n.final_states = {1}
        /\ TransSet(n) = {Trans(0, 1, c) : c \in first} \cup {Trans(1, 1, c) : c \in rest}
        /\ Len(n.transitions) = Cardinality(first) + Cardinality(rest)
        /\ \A t \in TransSet(n) :
              /\ t.symbol # EPSILON
              /\ t.from_state \in 0..(n.num_states - 1)
              /\ t.to_state \in 0..(n.num_states - 1)
              /\ ~(t.from_state = 0 /\ t.symbol \in 48..57)
        /\ nfa = n => NfaSymbols(nfa) = rest /\ ~NfaAccepts(nfa, <<>>)

\* C24 witness: the identifier NFA was built and handed to nfa_to_dfa, which
\* returned
C24_Witness ==
    /\ nfa = create_nfa_for_identifier
    /\ Len(nfa.transitions) = 116
    /\ pc = "dfa"

\* the block ids that hold a state of the DFA that was minimized
UsedBlocks == {partition[i] : i \in 1..Len(partition)}

\* C25: the result of minimize_dfa has one state for every block of the final
\* partition that is not empty and no other: every state id below num_states
\* is the block of some state of the argument.
C25_OneStatePerBlock ==
    MinBuilt =>
        /\ \A p \in 0..(min_dfa.num_states - 1) : p \in UsedBlocks
        /\ min_dfa.num_states = Cardinality(UsedBlocks)

\* the pairs of states of d (and the dead end -1) told apart by some word
ApartPairs(d) ==
    LET Q == (0..(d.num_states - 1)) \cup {-1}
    IN  Apart(d, {p \in Q \X Q : (p[1] \in d.final_states) # (p[2] \in d.final_states)})

\* C26: two states of the argument that accept the same words are in the same
\* block of the final partition, so minimize_dfa maps them to one state.
C26_MergesIndistinguishable ==
    MinBuilt =>
        \A s, t \in 0..(dfa.num_states - 1) :
            <<s, t>> \notin ApartPairs(dfa) => partition[s + 1] = partition[t + 1]

\* any two states of d in one block of part agree on being final and, symbol
\* by symbol, on having a transition and on the block it leads to
StableBlocks(d, part) ==
    \A s, t \in 0..(d.num_states - 1) :
        part[s + 1] = part[t + 1] =>
            /\ (s \in d.final_states) <=> (t \in d.final_states)
            /\ \A c \in AlphabetOf(d) :
                  LET next1 == Delta(d, s, c)
                      next2 == Delta(d, t, c)
                  IN  IF next1 = -1 \/ next2 = -1 THEN next1 = next2
                      ELSE part[next1 + 1] = part[next2 + 1]

\* the transitions and the final flags of m are those of any member of the
\* block: m is the quotient of d by part
QuotientOf(d, part, m) ==
    \A s \in 0..(d.num_states - 1) :
        /\ (part[s + 1] \in m.final_states) <=> (s \in d.final_states)
        /\ \A c \in AlphabetOf(d) :
              Delta(m, part[s + 1], c) =
                  (IF Delta(d, s, c) = -1 THEN -1 ELSE part[Delta(d, s, c) + 1])

\* the partition minimize_dfa(min_dfa) stops with
SecondPartition == refine_loop(min_dfa, initial_partition(min_dfa), 2).partition

\* C27: when the refinement loop has stopped, two states of one block agree
\* on being final and, for every symbol, have both no transition or both a
\* transition into the same block; the final flag and every transition of the
\* result are then the same whichever member of the block they are computed
\* from.  For minimize_dfa(dfa) and for minimize_dfa(min_dfa).
C27_BlocksAgree ==
    /\ pc \in {"build", "min", "done"} => StableBlocks(dfa, partition)
    /\ MinBuilt => QuotientOf(dfa, partition, min_dfa)
    /\ pc = "done" =>
          /\ StableBlocks(min_dfa, SecondPartition)
          /\ QuotientOf(min_dfa, SecondPartition, min2_dfa)

\* C27 witness: the loop split a block, stopped, and left two states in one block
C27_Witness ==
    /\ pc = "min"
    /\ Len(passes) >= 2
    /\ passes[1].changed
    /\ \E i, j \in 1..Len(partition) : i # j /\ partition[i] = partition[j]

\* the passes made so far: a pass that reports a split ends with more blocks
\* than it began with, and only the last pass made can be one without a split
PassesIncrease ==
    \A i \in 1..Len(passes) :
        /\ passes[i].changed => passes[i].after > passes[i].before
        /\ i < Len(passes) => passes[i].changed

\* the loop is left after a pass without a split, and only then
StopsAtFirstQuietPass ==
    /\ pc \in {"build", "min", "done"} =>
          Len(passes) >= 1 /\ ~passes[Len(passes)].changed
    /\ pc = "refine" /\ Len(passes) >= 1 => passes[Len(passes)].changed

\* the number of blocks, and of states of the result, is at most the number
\* of states of the argument plus one
BlocksBounded ==
    /\ pc \in {"refine", "build", "min", "done"} => num_partitions <= dfa.num_states + 1
    /\ MinBuilt => min_dfa.num_states = num_partitions
    /\ pc = "done" => min2_dfa.num_states <= min_dfa.num_states + 1

\* C28: the refinement loop of minimize_dfa terminates; every pass that
\* reports a split ends with strictly more blocks, the loop stops at the first
\* pass with no split, and the number of blocks it stops with, the number of
\* states of the result, is at most the number of states of the argument plus
\* one.
C28_RefinementTerminates ==
    /\ [](PassesIncrease /\ StopsAtFirstQuietPass /\ BlocksBounded)
    /\ (pc = "refine") ~> (pc = "build")

\* C28 witness: the loop stopped after two splitting passes and a quiet one
C28_Witness ==
    /\ pc = "min"
    /\ Len(passes) >= 3
    /\ ~passes[Len(passes)].changed
    /\ min_dfa.num_states > 2

\* the NFA states a registered StateSet holds
StatesOf(set) == {set[j] : j \in 1..Len(set)}

\* C29: in the DFA nfa_to_dfa returns, a state is accepting exactly when the
\* set of NFA states it stands for holds an accepting NFA state, and the start
\* state stands for the epsilon closure of the NFA's start state.
C29_AcceptingStates ==
    DfaBuilt =>
        /\ dfa.num_states = Len(dfa_states)
        /\ \A i \in 0..(dfa.num_states - 1) :
              (i \in dfa.final_states) <=>
                  (StatesOf(dfa_states[i + 1]) \cap nfa.final_states # {})
        /\ dfa.final_states \subseteq 0..(dfa.num_states - 1)
        /\ StatesOf(dfa_states[dfa.start_state + 1]) = NfaEpsReach(nfa, {nfa.start_state})

\* C29 witness: the start state stands for two NFA states, an accepting state
\* stands for an accepting and a non-accepting NFA state, another accepts not
C29_Witness ==
    /\ pc = "dfa"
    /\ Cardinality(StatesOf(dfa_states[dfa.start_state + 1])) >= 2
    /\ \E i \in dfa.final_states :
          ~(StatesOf(dfa_states[i + 1]) \subseteq nfa.final_states)
    /\ \E i \in 0..(dfa.num_states - 1) : i \notin dfa.final_states

\* the registry of nfa_to_dfa exists and has been written within its bounds
RegistryLive == pc \in {"subset", "dfa", "refine", "build", "min", "done"}

\* the ids whose symbols have all been handled
Marked == {i \in 0..(Len(dfa_states) - 1) :
              \A k \in 1..Len(unmarked) : unmarked[k] # i}

\* the set nfa_to_dfa computes for the registered state i and the symbol c
TargetSet(i, c) == epsilon_closure(nfa, move(nfa, dfa_states[i + 1], c))

\* state_set_equal on x and y says whether they hold the same states
EqualIsContentEqual(x, y) == state_set_equal(x, y) <=> (StatesOf(x) = StatesOf(y))

\* C30: while nfa_to_dfa builds its registry and afterwards, no two ids stand
\* for sets of equal content; state_set_equal is equality of content, whatever
\* the order of insertion; every set is free of duplicates; a computed target
\* set equal to a registered one has the registered id and no new state; and
\* every registered id is reachable from the start state through the table.
C30_RegistryDistinct ==
    RegistryLive =>
        /\ \A i, k \in 1..Len(dfa_states) :
              StatesOf(dfa_states[i]) = StatesOf(dfa_states[k]) => i = k
        /\ \A i \in 1..Len(dfa_states) :
              Cardinality(StatesOf(dfa_states[i])) = Len(dfa_states[i])
        /\ \A i, k \in 1..Len(dfa_states) : EqualIsContentEqual(dfa_states[i], dfa_states[k])
        /\ \A i \in Marked : \A c \in AlphabetOf(dfa) \cap NfaSymbols(nfa) :
              LET target == TargetSet(i, c)
              IN  /\ Cardinality(StatesOf(target)) = Len(target)
                  /\ \A k \in 1..Len(dfa_states) : EqualIsContentEqual(target, dfa_states[k])
                  /\ IF Len(target) = 0 THEN Delta(dfa, i, c) = -1
                     ELSE /\ Delta(dfa, i, c) \in 0..(Len(dfa_states) - 1)
                          /\ StatesOf(dfa_states[Delta(dfa, i, c) + 1]) = StatesOf(target)
        /\ 0..(Len(dfa_states) - 1) \subseteq Reachable(dfa, {dfa.start_state})

\* C30 witness: a computed target set lists the states of a registered set in
\* another order and has its id
C30_Witness ==
    /\ pc = "subset"
    /\ Len(dfa_states) >= 2
    /\ \E i \in Marked : \E c \in NfaSymbols(nfa) :
          /\ Delta(dfa, i, c) # -1
          /\ TargetSet(i, c) # dfa_states[Delta(dfa, i, c) + 1]
          /\ state_set_equal(TargetSet(i, c), dfa_states[Delta(dfa, i, c) + 1])

\* the table of d has a row for every state below num_states, its entries are
\* the sentinel -1 or a state below num_states, and so are the start state and
\* the accepting states
WellFormed(d) ==
    LET Q == 0..(d.num_states - 1)
    IN  /\ d.num_states <= MAX_STATES
        /\ \A k \in DOMAIN d.transition : k[1] \in Q /\ d.transition[k] \in Q
        /\ \A s \in Q : \A c \in AlphabetOf(d) : Delta(d, s, c) \in Q \cup {-1}
        /\ d.start_state \in Q
        /\ d.final_states \subseteq Q

\* C31: every DFA nfa_to_dfa or minimize_dfa produces is well-formed: each
\* call returns a DFA whose table entries, for the states below num_states and
\* the symbols of the alphabet, are -1 or a state below num_states; an entry
\* is -1 exactly when the set it is computed from is empty (no NFA state to
\* move to, no member of the block with a transition); the start state is
\* below num_states and no state at or above num_states is accepting.
C31_WellFormedDfa ==
    /\ pc # "undefined"
    /\ DfaBuilt => WellFormed(dfa)
    /\ pc = "dfa" =>
          \A i \in 0..(dfa.num_states - 1) : \A c \in AlphabetOf(dfa) :
              (Delta(dfa, i, c) = -1) <=> (Len(move(nfa, dfa_states[i + 1], c)) = 0)
    /\ MinBuilt => WellFormed(min_dfa)
    /\ pc = "min" =>
          \A p \in 0..(min_dfa.num_states - 1) : \A c \in AlphabetOf(min_dfa) :
              (Delta(min_dfa, p, c) = -1) <=>
                  (\A i \in 0..(dfa.num_states - 1) :
                      partition[i + 1] = p => Delta(dfa, i, c) = -1)
    /\ pc = "done" => WellFormed(min2_dfa)

\* the StateSets of at most MaxSetLen states of n, in every order
SetInputs(n) ==
    {S \in UNION {[1..k -> 0..(n.num_states - 1)] : k \in 0..MaxSetLen} :
        Cardinality(StatesOf(S)) = Len(S)}

\* C33: epsilon_closure(N, S) holds exactly the states of N reachable from a
\* member of S by zero or more epsilon transitions: it holds S, is closed
\* under epsilon transitions, holds nothing else and no state twice, and
\* epsilon_closure of it is the same set again.
C33_EpsilonClosure ==
    pc = "subset" =>
        \A S \in SetInputs(nfa) \cup {dfa_states[i] : i \in 1..Len(dfa_states)} :
            LET closure == epsilon_closure(nfa, S)
            IN  /\ StatesOf(S) \subseteq StatesOf(closure)
                /\ \A t \in TransSet(nfa) :
                      t.symbol = EPSILON /\ t.from_state \in StatesOf(closure)
                          => t.to_state \in StatesOf(closure)
                /\ StatesOf(closure) = NfaEpsReach(nfa, StatesOf(S))
                /\ Cardinality(StatesOf(closure)) = Len(closure)
                /\ epsilon_closure(nfa, closure) = closure

\* C33 witness: the closure of the start state was found along three epsilon
\* moves in a row
C33_Witness ==
    /\ pc = "subset"
    /\ dfa_states[1] = epsilon_closure(nfa, <<nfa.start_state>>)
    /\ dfa_states[1] = <<0, 1, 2, 3>>
    /\ \A q \in 0..2 : Trans(q, q + 1, EPSILON) \in TransSet(nfa)
    /\ Trans(0, 3, EPSILON) \notin TransSet(nfa)

(***************************************************************************)
(* Properties of the scanner.                                              *)
(***************************************************************************)
Source == lexer.source
LastToken == tokens[Len(tokens)]
BlankChars == {9, 10, 11, 12, 13, 32}
\* the source character at offset p (0-based)
CharAt(p) == Source[p + 1]

\* C7: once get_next_token has returned EOF, every later call returns EOF and
\* leaves pos, line, column and current_char as they were; pos never exceeds
\* length.
C7_EofIsFinal ==
    /\ [](lexer.pos <= lexer.length)
    /\ [][EofCount > 0 => /\ lexer' = lexer
                          /\ tokens'[Len(tokens')].type = "EOF"
                          /\ tokens'[Len(tokens')].end = lexer.pos]_vars

\* C7 witness: a later call on a non-empty source has returned EOF again
C7_Witness ==
    /\ EofCount >= 2
    /\ lexer.length > 0
    /\ Len(tokens) > EofCount

\* C8: every call that returns a token other than EOF moves the cursor forward
\* by at least one character, and the first EOF comes within length + 1 calls.
C8_Progress ==
    /\ \A i \in 1..Len(tokens) :
          tokens[i].type # "EOF" => tokens[i].end > tokens[i].call_pos
    /\ \A i \in 1..Len(tokens) :
          (\A j \in 1..(i - 1) : tokens[j].type # "EOF") => i <= lexer.length + 1

\* C8 witness: the scan of a three-character source took length + 1 calls
C8_Witness ==
    /\ lexer.length = 3
    /\ Len(tokens) = lexer.length + 1
    /\ LastToken.type = "EOF"
    /\ EofCount = 1

\* where the rule that returned the ERROR token tokens[i] stops
ErrorStop(i) ==
    LET t == tokens[i]
        body == t.start + 1
    IN  CASE t.lexeme[1] = "illegal character" -> t.start + 1
          [] t.lexeme[1] = "unterminated string" -> lexer.length
          [] OTHER ->
               IF body >= lexer.length THEN lexer.length
               ELSE IF CharAt(body) = 92
               THEN (IF body + 2 <= lexer.length THEN body + 2 ELSE lexer.length)
               ELSE body + 1

\* the first n tokens of a scan that starts at lx
RECURSIVE ScanFrom(_, _)
ScanFrom(lx, n) ==
    IF n = 0 THEN <<>>
    ELSE LET r == get_next_token(lx)
         IN  <<[type |-> r.token.type, lexeme |-> r.token.lexeme,
                start |-> r.start, end |-> r.lexer.pos]>> \o ScanFrom(r.lexer, n - 1)

\* C9: an ERROR token does not end the scan.  The cursor is left where the
\* failed rule stopped, the next call starts there, the calls after the error
\* return the tokens of the rest of the input as a scan of that rest alone
\* would, and EOF is returned at the end of the input only.
C9_ErrorRecovery ==
    /\ \A i \in 1..Len(tokens) :
          tokens[i].type = "ERROR" =>
            /\ tokens[i].end = ErrorStop(i)
            /\ i < Len(tokens) => tokens[i + 1].call_pos = tokens[i].end
            /\ LET e == tokens[i].end
                   rest == ScanFrom(create_lexer(SubSeq(Source, e + 1, lexer.length)),
                                    Len(tokens) - i)
               IN  \A k \in 1..(Len(tokens) - i) :
                      /\ tokens[i + k].type = rest[k].type
                      /\ tokens[i + k].lexeme = rest[k].lexeme
                      /\ tokens[i + k].start = rest[k].start + e
                      /\ tokens[i + k].end = rest[k].end + e
    /\ \A i \in 1..Len(tokens) :
          tokens[i].type = "EOF" => tokens[i].end = lexer.length

\* C9 witness: after an ERROR token the scan went on to another token and
\* then to EOF
C9_Witness ==
    \E i \in 1..Len(tokens) :
        /\ tokens[i].type = "ERROR"
        /\ i + 1 < Len(tokens)
        /\ tokens[i + 1].type \notin {"ERROR", "EOF"}
        /\ LastToken.type = "EOF"

InComment(p) ==
    \E k \in 1..Len(skipped) :
        skipped[k].kind = "comment" /\ skipped[k].from <= p /\ p < skipped[k].to

SpansOf(p) == {i \in 1..Len(tokens) : tokens[i].start <= p /\ p < tokens[i].end}

\* C10: of the characters consumed so far, every one that is neither a blank
\* nor inside a comment lies in the span [start, end) of exactly one returned
\* token; the spans come in increasing order without overlap; what was skipped
\* is a comment (it opens with // or /*) or blanks only; and the text of every
\* token that carries its text is the text of its span.  After EOF all of the
\* source is consumed.
C10_SpansCoverInput ==
    /\ \A p \in 0..(lexer.pos - 1) :
          (CharAt(p) \notin BlankChars /\ ~InComment(p)) => Cardinality(SpansOf(p)) = 1
    /\ \A i \in 1..Len(tokens) :
          /\ tokens[i].start <= tokens[i].end
          /\ i < Len(tokens) => tokens[i].end <= tokens[i + 1].start
          /\ tokens[i].type \notin {"ERROR", "EOF"} =>
                tokens[i].lexeme = SubSeq(Source, tokens[i].start + 1, tokens[i].end)
    /\ \A k \in 1..Len(skipped) :
          /\ skipped[k].kind = "comment" =>
                /\ skipped[k].from + 2 <= skipped[k].to
                /\ CharAt(skipped[k].from) = 47
                /\ CharAt(skipped[k].from + 1) \in {47, 42}
          /\ skipped[k].kind = "blank" =>
                \A p \in skipped[k].from..(skipped[k].to - 1) : CharAt(p) \in BlankChars
    /\ EofCount > 0 => lexer.pos = lexer.length

\* C10 witness: a finished scan that skipped a comment and a blank and returned
\* two tokens with text
C10_Witness ==
    /\ EofCount = 1
    /\ \E k \in 1..Len(skipped) : skipped[k].kind = "comment"
    /\ \E k \in 1..Len(skipped) : skipped[k].kind = "blank"
    /\ \E i, j \in 1..Len(tokens) :
          i < j /\ tokens[i].type \notin {"ERROR", "EOF"}
                /\ tokens[j].type \notin {"ERROR", "EOF"}

(***************************************************************************)
(* The text of the source, read without the scanner.                       *)
(***************************************************************************)
DecimalDigit == 48..57
Letter == (65..90) \cup (97..122)
\* letters and the underscore: what an identifier starts with
IdentStart == Letter \cup {95}
\* what an identifier goes on with
IdentPart == Letter \cup DecimalDigit \cup {95}

\* the end of the longest run of characters of set that starts at position p:
\* the first position from p on that holds no character of set
RunEnd(p, set) ==
    CHOOSE q \in p..lexer.length :
        /\ \A r \in p..(q - 1) : CharAt(r) \in set
        /\ q < lexer.length => CharAt(q) \notin set

\* source[from..to)
Slice(from, to) == SubSeq(Source, from + 1, to)

\* tokens[i] starts on a character of set
StartsOn(i, set) ==
    tokens[i].start < lexer.length /\ CharAt(tokens[i].start) \in set

\* the keyword kind of a text that is one of the 13 keywords, else IDENTIFIER
KindOfWord(text) ==
    IF \E k \in 1..Len(keywords) : keywords[k][1] = text
    THEN keywords[CHOOSE k \in 1..Len(keywords) : keywords[k][1] = text][2]
    ELSE "IDENTIFIER"

\* tokens[i] starts with a digit run that a letter or an underscore follows
DigitsThenWord(i) ==
    /\ StartsOn(i, DecimalDigit)
    /\ RunEnd(tokens[i].start, DecimalDigit) < lexer.length
    /\ CharAt(RunEnd(tokens[i].start, DecimalDigit)) \in IdentStart

\* C11 as stated: a digit run followed by identifier characters is returned as
\* INT_CONST with the digit run as lexeme, then IDENTIFIER with the following
\* identifier characters as lexeme.
C11_DigitsThenIdentifier ==
    \A i \in 1..Len(tokens) :
        DigitsThenWord(i) =>
            LET d == RunEnd(tokens[i].start, DecimalDigit)
            IN  /\ tokens[i].type = "INT_CONST"
                /\ tokens[i].end = d
                /\ tokens[i].lexeme = Slice(tokens[i].start, d)
                /\ i < Len(tokens) =>
                      /\ tokens[i + 1].type = "IDENTIFIER"
                      /\ tokens[i + 1].start = d
                      /\ tokens[i + 1].end = RunEnd(d, IdentPart)
                      /\ tokens[i + 1].lexeme = Slice(d, RunEnd(d, IdentPart))

\* the character after the digit run is taken into the number: an exponent
\* marker, or the x of the prefix 0x
NumberGoesOn(i) ==
    LET s == tokens[i].start
        d == RunEnd(s, DecimalDigit)
    IN  \/ CharAt(d) \in {101, 69}
        \/ d = s + 1 /\ CharAt(s) = 48 /\ CharAt(d) \in {120, 88}

\* C11 amended: a digit run followed by a letter or an underscore, the letter
\* not being e or E and the run not being a single 0 before x or X, is
\* returned as INT_CONST with the digit run as lexeme; the next token is the
\* following run of identifier characters, a keyword if the run is one and
\* IDENTIFIER otherwise.
C11_DigitsThenWordSplit ==
    \A i \in 1..Len(tokens) :
        (DigitsThenWord(i) /\ ~NumberGoesOn(i)) =>
            LET d == RunEnd(tokens[i].start, DecimalDigit)
            IN  /\ tokens[i].type = "INT_CONST"
                /\ tokens[i].end = d
                /\ tokens[i].lexeme = Slice(tokens[i].start, d)
                /\ i < Len(tokens) =>
                      /\ tokens[i + 1].type = KindOfWord(Slice(d, RunEnd(d, IdentPart)))
                      /\ tokens[i + 1].start = d
                      /\ tokens[i + 1].end = RunEnd(d, IdentPart)
                      /\ tokens[i + 1].lexeme = Slice(d, RunEnd(d, IdentPart))

\* C11 witness: 123abc was scanned as INT_CONST 123 and IDENTIFIER abc
C11_Witness ==
    \E i \in 1..(Len(tokens) - 1) :
        /\ tokens[i].type = "INT_CONST"
        /\ tokens[i].lexeme = <<49, 50, 51>>
        /\ tokens[i + 1].type = "IDENTIFIER"
        /\ tokens[i + 1].lexeme = <<97, 98, 99>>
        /\ tokens[i + 1].start = tokens[i].end

KeywordTexts == {keywords[k][1] : k \in 1..Len(keywords)}
KeywordKinds == {keywords[k][2] : k \in 1..Len(keywords)}

\* C12: a token that starts on a letter or an underscore spans the whole run
\* of letters, digits and underscores that starts there; its kind is a keyword
\* kind iff the run is one of the 13 keywords, and then that keyword's kind;
\* otherwise it is IDENTIFIER.  Keyword and IDENTIFIER tokens start nowhere
\* else.
C12_KeywordExactness ==
    \A i \in 1..Len(tokens) :
        /\ StartsOn(i, IdentStart) =>
              LET e == RunEnd(tokens[i].start, IdentPart)
                  text == Slice(tokens[i].start, e)
              IN  /\ tokens[i].end = e
                  /\ tokens[i].lexeme = text
                  /\ tokens[i].type \in KeywordKinds \cup {"IDENTIFIER"}
                  /\ tokens[i].type \in KeywordKinds <=> text \in KeywordTexts
                  /\ tokens[i].type = KindOfWord(text)
        /\ tokens[i].type \in KeywordKinds \cup {"IDENTIFIER"} => StartsOn(i, IdentStart)

\* C12 witness: one IDENTIFIER whose text goes on after a keyword (returning),
\* and the scan is over
C12_Witness ==
    /\ EofCount = 1
    /\ \E i \in 1..Len(tokens) :
          /\ tokens[i].type = "IDENTIFIER"
          /\ \E k \in KeywordTexts :
                /\ Len(k) < Len(tokens[i].lexeme)
                /\ SubSeq(tokens[i].lexeme, 1, Len(k)) = k
          /\ i + 1 = Len(tokens)

\* the two-character operators and their kinds
TwoCharOperators ==
    { <<<<61, 61>>, "EQ">>, <<<<33, 61>>, "NE">>, <<<<60, 61>>, "LE">>,
      <<<<62, 61>>, "GE">>, <<<<38, 38>>, "AND">>, <<<<124, 124>>, "OR">> }

\* C13: a token that starts on the two characters of ==, !=, <=, >=, && or ||
\* is that operator's token (EQ, NE, LE, GE, AND, OR) and spans both
\* characters; the one-character kinds ASSIGN, NOT, LT, GT are returned only
\* where no '=' follows.
C13_TwoCharOperatorFirst ==
    \A i \in 1..Len(tokens) :
        LET s == tokens[i].start
        IN  /\ \A op \in TwoCharOperators :
                  (s + 1 < lexer.length /\ Slice(s, s + 2) = op[1]) =>
                      /\ tokens[i].type = op[2]
                      /\ tokens[i].lexeme = op[1]
                      /\ tokens[i].end = s + 2
            /\ tokens[i].type \in {"ASSIGN", "NOT", "LT", "GT"} =>
                  /\ tokens[i].end = s + 1
                  /\ s + 1 < lexer.length => CharAt(s + 1) # 61

\* C13 witness: count >= 10 && count <= 20; was scanned to its end with
\* GE, AND and LE among the tokens
C13_Witness ==
    /\ EofCount = 1
    /\ \E i, j, k \in 1..Len(tokens) :
          /\ i < j /\ j < k
          /\ tokens[i].type = "GE" /\ tokens[j].type = "AND" /\ tokens[k].type = "LE"
          /\ tokens[k].end = tokens[k].start + 2

\* the digits of base 16 in order of value, in lower and in upper case
HexLower == <<48, 49, 50, 51, 52, 53, 54, 55, 56, 57, 97, 98, 99, 100, 101, 102>>
HexUpper == <<48, 49, 50, 51, 52, 53, 54, 55, 56, 57, 65, 66, 67, 68, 69, 70>>
HexDigitChars == {HexLower[v] : v \in 1..16} \cup {HexUpper[v] : v \in 1..16}

\* the number a string of digits of the base denotes
RECURSIVE NumberOf(_, _)
NumberOf(digits, base) ==
    IF digits = <<>> THEN 0
    ELSE LET c == digits[Len(digits)]
             v == CHOOSE n \in 0..15 : HexLower[n + 1] = c \/ HexUpper[n + 1] = c
         IN  NumberOf(SubSeq(digits, 1, Len(digits) - 1), base) * base + v

\* tokens[i] starts on 0x or 0X
StartsHex(i) ==
    /\ StartsOn(i, {48})
    /\ tokens[i].start + 1 < lexer.length
    /\ CharAt(tokens[i].start + 1) \in {120, 88}

\* position p holds a dot that a digit follows
FractionAt(p) ==
    /\ p + 1 < lexer.length
    /\ CharAt(p) = 46
    /\ CharAt(p + 1) \in DecimalDigit

\* position p holds an exponent marker
ExponentAt(p) == p < lexer.length /\ CharAt(p) \in {101, 69}

\* C14: a token that starts on 0x or 0X is INT_CONST, its lexeme is the prefix
\* and the run of hex digits after it, and its int_value is the base-16 value
\* of that run; a token that starts on a digit run with no fraction and no
\* exponent after it is INT_CONST with the base-10 value of the run.
\* DOUBLE_CONST is returned only where a fraction or an exponent follows a
\* decimal digit run.
C14_IntegerValues ==
    \A i \in 1..Len(tokens) :
        LET s == tokens[i].start
            h == RunEnd(s + 2, HexDigitChars)
            d == RunEnd(s, DecimalDigit)
        IN  /\ StartsHex(i) =>
                  /\ tokens[i].type = "INT_CONST"
                  /\ tokens[i].end = h
                  /\ tokens[i].lexeme = Slice(s, h)
                  /\ tokens[i].value = <<"int_value", NumberOf(Slice(s + 2, h), 16)>>
            /\ (StartsOn(i, DecimalDigit) /\ ~StartsHex(i)
                    /\ ~FractionAt(d) /\ ~ExponentAt(d)) =>
                  /\ tokens[i].type = "INT_CONST"
                  /\ tokens[i].end = d
                  /\ tokens[i].lexeme = Slice(s, d)
                  /\ tokens[i].value = <<"int_value", NumberOf(Slice(s, d), 10)>>
            /\ tokens[i].type = "DOUBLE_CONST" =>
                  /\ StartsOn(i, DecimalDigit) /\ ~StartsHex(i)
                  /\ FractionAt(d) \/ ExponentAt(d)
            /\ tokens[i].type = "INT_CONST" => StartsOn(i, DecimalDigit)

\* C14 witness: 0x1A2B was scanned as INT_CONST 6699
C14_Witness ==
    \E i \in 1..Len(tokens) :
        /\ tokens[i].type = "INT_CONST"
        /\ tokens[i].lexeme = <<48, 120, 49, 65, 50, 66>>
        /\ tokens[i].value = <<"int_value", 6699>>

\* C15: in the lexeme of every DOUBLE_CONST, an exponent marker e or E is
\* followed, after an optional sign, by at least one decimal digit.
C15_ExponentHasDigits ==
    \A i \in 1..Len(tokens) :
        tokens[i].type = "DOUBLE_CONST" =>
            \A k \in 1..Len(tokens[i].lexeme) :
                tokens[i].lexeme[k] \in {101, 69} =>
                    LET text == tokens[i].lexeme
                        signed == k + 1 <= Len(text) /\ text[k + 1] \in {43, 45}
                        j == IF signed THEN k + 2 ELSE k + 1
                    IN  j <= Len(text) /\ text[j] \in DecimalDigit

\* tokens[i] starts with a digit run that a dot follows and no digit after it
DanglingDot(i) ==
    LET d == RunEnd(tokens[i].start, DecimalDigit)
    IN  /\ StartsOn(i, DecimalDigit)
        /\ d < lexer.length
        /\ CharAt(d) = 46
        /\ ~FractionAt(d)

\* C16: a dot is part of a number token only with a digit right after it.  A
\* token that starts with digits followed by a dot that no digit follows is
\* INT_CONST for the digits, the cursor is left on the dot, and the next call
\* returns the ERROR token for the illegal character '.'.
C16_DanglingDot ==
    \A i \in 1..Len(tokens) :
        /\ tokens[i].type \in {"INT_CONST", "DOUBLE_CONST"} =>
              \A k \in 1..Len(tokens[i].lexeme) :
                  tokens[i].lexeme[k] = 46 =>
                      /\ k < Len(tokens[i].lexeme)
                      /\ tokens[i].lexeme[k + 1] \in DecimalDigit
        /\ DanglingDot(i) =>
              LET d == RunEnd(tokens[i].start, DecimalDigit)
              IN  /\ tokens[i].type = "INT_CONST"
                  /\ tokens[i].lexeme = Slice(tokens[i].start, d)
                  /\ tokens[i].end = d
                  /\ i = Len(tokens) => lexer.pos = d /\ lexer.current_char = 46
                  /\ i < Len(tokens) =>
                        /\ tokens[i + 1].type = "ERROR"
                        /\ tokens[i + 1].lexeme = <<"illegal character", 46>>
                        /\ tokens[i + 1].call_pos = d
                        /\ tokens[i + 1].start = d
                        /\ tokens[i + 1].end = d + 1

\* C16 witness: 5. was scanned as INT_CONST 5, ERROR for the dot, EOF
C16_Witness ==
    /\ Source = <<53, 46>>
    /\ Len(tokens) = 3
    /\ tokens[1].type = "INT_CONST" /\ tokens[1].lexeme = <<53>>
    /\ tokens[2].type = "ERROR" /\ tokens[2].start = 1
    /\ tokens[3].type = "EOF"

\* the line of position p: one more than the newlines before it
LineOf(p) == 1 + Cardinality({q \in 0..(p - 1) : CharAt(q) = 10})

\* the column of position p: its distance from the start of its line, from 1
ColumnOf(p) ==
    LET breaks == {q \in 0..(p - 1) : CharAt(q) = 10}
    IN  IF breaks = {} THEN p + 1
        ELSE p - (CHOOSE q \in breaks : \A r \in breaks : r <= q)

\* the position of the first double quote from p on that no backslash
\* escapes, or -1 if the input ends first
RECURSIVE StringClose(_)
StringClose(p) ==
    IF p >= lexer.length THEN -1
    ELSE IF CharAt(p) = 34 THEN p
    ELSE IF CharAt(p) = 92 THEN StringClose(p + 2)
    ELSE StringClose(p + 1)

\* C17: a token that starts on a double quote with no unescaped double quote
\* after it is an ERROR token with the message for an unterminated string and
\* no value, at the line and column of the opening quote; the cursor is left
\* at the end of the input and the next call returns EOF.  With a closing
\* quote the token is the STRING_CONST up to it.
C17_UnterminatedString ==
    \A i \in 1..Len(tokens) :
        StartsOn(i, {34}) =>
            LET s == tokens[i].start
                close == StringClose(s + 1)
            IN  /\ tokens[i].line = LineOf(s)
                /\ tokens[i].column = ColumnOf(s)
                /\ close = -1 =>
                      /\ tokens[i].type = "ERROR"
                      /\ tokens[i].lexeme = <<"unterminated string">>
                      /\ tokens[i].value = <<"unset">>
                      /\ tokens[i].end = lexer.length
                      /\ i = Len(tokens) =>
                            lexer.pos = lexer.length /\ lexer.current_char = 0
                      /\ i < Len(tokens) =>
                            /\ tokens[i + 1].type = "EOF"
                            /\ tokens[i + 1].end = lexer.length
                /\ close # -1 =>
                      /\ tokens[i].type = "STRING_CONST"
                      /\ tokens[i].end = close + 1
                      /\ tokens[i].lexeme = Slice(s, close + 1)

\* C17 witness: a string opened on the second line, holding an escaped quote
\* and never closed, gave ERROR and then EOF
C17_Witness ==
    \E i \in 1..(Len(tokens) - 1) :
        /\ tokens[i].type = "ERROR"
        /\ tokens[i].lexeme = <<"unterminated string">>
        /\ tokens[i].line = 2
        /\ \E p \in (tokens[i].start + 1)..(lexer.length - 1) :
              CharAt(p) = 34 /\ CharAt(p - 1) = 92
        /\ tokens[i + 1].type = "EOF"

\* the positions after the opener at position from where a */ starts
ClosersAfter(from) ==
    {q \in (from + 2)..(lexer.length - 2) : CharAt(q) = 42 /\ CharAt(q + 1) = 47}

\* skipped[k] is a block comment
IsBlockComment(k) ==
    skipped[k].kind = "comment" /\ CharAt(skipped[k].from + 1) = 42

\* C18: a block comment ends right after the first */ that starts after its
\* opener; with no such */ it runs to the end of the input, every token
\* returned from there on is EOF and the call that skipped it returned EOF.
\* No token starts on /* or inside a comment.
C18_BlockComment ==
    /\ \A k \in 1..Len(skipped) :
          IsBlockComment(k) =>
              LET from == skipped[k].from
                  closers == ClosersAfter(from)
              IN  /\ closers # {} =>
                        skipped[k].to = (CHOOSE q \in closers : \A r \in closers : q <= r) + 2
                  /\ closers = {} =>
                        /\ skipped[k].to = lexer.length
                        /\ \A i \in 1..Len(tokens) :
                              tokens[i].start >= from => tokens[i].type = "EOF"
                        /\ \E i \in 1..Len(tokens) :
                              /\ tokens[i].call_pos <= from
                              /\ tokens[i].type = "EOF"
                              /\ \A j \in 1..(i - 1) : tokens[j].end <= from
                  /\ \A i \in 1..Len(tokens) :
                        ~(from <= tokens[i].start /\ tokens[i].start < skipped[k].to)
    /\ \A i \in 1..Len(tokens) :
          ~(StartsOn(i, {47}) /\ tokens[i].start + 1 < lexer.length
                              /\ CharAt(tokens[i].start + 1) = 42)

\* C18 witness: after a token, /*/ opened a comment that was never closed, and
\* the call returned EOF
C18_Witness ==
    \E k \in 1..Len(skipped) :
        /\ IsBlockComment(k)
        /\ skipped[k].from > 0
        /\ skipped[k].from + 3 < lexer.length
        /\ CharAt(skipped[k].from + 2) = 47
        /\ ClosersAfter(skipped[k].from) = {}
        /\ Len(tokens) = 2
        /\ tokens[1].type = "IDENTIFIER"
        /\ tokens[2].type = "EOF"
        /\ tokens[2].call_pos <= skipped[k].from

\* escaped character and what it stands for: n LF, t TAB, r CR, backslash,
\* quote, 0 NUL
EscapeTable ==
    {<<110, 10>>, <<116, 9>>, <<114, 13>>, <<92, 92>>, <<39, 39>>, <<48, 0>>}

Decoded(c) ==
    IF \E e \in EscapeTable : e[1] = c
    THEN (CHOOSE e \in EscapeTable : e[1] = c)[2]
    ELSE c

\* the body of the character literal whose opening quote is at position s:
\* an escape (a backslash and the character after it), one character that is
\* neither backslash nor quote, or nothing; to is the position after the body
LiteralBody(s) ==
    LET b == s + 1
    IN  IF b < lexer.length /\ CharAt(b) = 92
        THEN IF b + 1 < lexer.length
             THEN [kind |-> "escape", to |-> b + 2, value |-> Decoded(CharAt(b + 1))]
             ELSE [kind |-> "cut", to |-> lexer.length, value |-> 0]
        ELSE IF b < lexer.length /\ CharAt(b) # 39
        THEN [kind |-> "plain", to |-> b + 1, value |-> CharAt(b)]
        ELSE [kind |-> "empty", to |-> b, value |-> 0]

\* C19: a token that starts on a single quote is, when a single quote follows
\* the body, the CHAR_CONST whose lexeme is the source text from quote to
\* quote and whose char_value is the escaped character decoded by the table
\* (any other escaped character as it stands) or the plain character itself;
\* when no single quote follows the body, it is an ERROR token.  CHAR_CONST
\* is returned nowhere else.  (An empty body between two quotes is taken as
\* closed.)
C19_CharLiteral ==
    \A i \in 1..Len(tokens) :
        /\ StartsOn(i, {39}) =>
              LET s == tokens[i].start
                  body == LiteralBody(s)
                  closed == body.to < lexer.length /\ CharAt(body.to) = 39
              IN  /\ closed =>
                        /\ tokens[i].type = "CHAR_CONST"
                        /\ tokens[i].end = body.to + 1
                        /\ tokens[i].lexeme = Slice(s, body.to + 1)
                        /\ body.kind \in {"escape", "plain"} =>
                              tokens[i].value = <<"char_value", body.value>>
                  /\ ~closed =>
                        /\ tokens[i].type = "ERROR"
                        /\ tokens[i].lexeme = <<"unterminated character constant">>
                        /\ tokens[i].value = <<"unset">>
        /\ tokens[i].type = "CHAR_CONST" => StartsOn(i, {39})

\* C19 witness: the four characters of the literal for the escape n were
\* scanned as CHAR_CONST with char_value LF
C19_Witness ==
    \E i \in 1..Len(tokens) :
        /\ tokens[i].type = "CHAR_CONST"
        /\ tokens[i].lexeme = <<39, 92, 110, 39>>
        /\ tokens[i].value = <<"char_value", 10>>

\* the characters of the cases of the switch on a single character:
\* + - * / % = < > ! ; , ( ) { } [ ]
OperatorChars == {43, 45, 42, 47, 37, 61, 60, 62, 33, 59, 44, 40, 41, 123, 125, 91, 93}

\* position s holds a character that starts no identifier, number, string,
\* character literal, comment, blank run, operator or delimiter; a lone & or |
\* is such a character
IllegalAt(s) ==
    /\ s < lexer.length
    /\ CharAt(s) \notin IdentStart \cup DecimalDigit \cup {34, 39} \cup BlankChars
                              \cup OperatorChars
    /\ CharAt(s) \in {38, 124} => ~(s + 1 < lexer.length /\ CharAt(s + 1) = CharAt(s))

\* C20: a token that starts on such a character is an ERROR token whose
\* message holds that character, its line and column are those of the
\* character, and it spans that one character: the cursor moves on by one.
\* The ERROR token for an illegal character is returned nowhere else.
C20_IllegalCharacter ==
    \A i \in 1..Len(tokens) :
        LET s == tokens[i].start
        IN  /\ IllegalAt(s) =>
                  /\ tokens[i].type = "ERROR"
                  /\ tokens[i].lexeme = <<"illegal character", CharAt(s)>>
                  /\ tokens[i].line = LineOf(s)
                  /\ tokens[i].column = ColumnOf(s)
                  /\ tokens[i].end = s + 1
                  /\ i = Len(tokens) => lexer.pos = s + 1
            /\ (tokens[i].type = "ERROR" /\ tokens[i].lexeme[1] = "illegal character") =>
                  IllegalAt(s)

\* C20 witness: a lone & in column 2 of line 2, before '=', gave the ERROR
\* token and then ASSIGN
C20_Witness ==
    \E i \in 1..(Len(tokens) - 1) :
        /\ tokens[i].type = "ERROR"
        /\ tokens[i].lexeme = <<"illegal character", 38>>
        /\ tokens[i].line = 2
        /\ tokens[i].column = 2
        /\ tokens[i + 1].type = "ASSIGN"
        /\ tokens[i + 1].start = tokens[i].start + 1

\* the Lexer after create_lexer(source) and k calls of advance
RECURSIVE Advanced(_, _)
Advanced(source, k) ==
    IF k = 0 THEN create_lexer(source) ELSE advance(Advanced(source, k - 1))

\* line and column of lx are those of its position in the source
TracksPosition(lx) ==
    /\ lx.line = LineOf(lx.pos)
    /\ lx.column = ColumnOf(lx.pos)

\* one call of advance on lx does what the kind of the character under the
\* cursor asks for
AdvanceCounts(lx) ==
    LET a == advance(lx)
    IN  IF lx.pos >= lx.length THEN a = lx
        ELSE /\ a.pos = lx.pos + 1
             /\ IF CharAt(lx.pos) = 10
                THEN a.line = lx.line + 1 /\ a.column = 1
                ELSE a.line = lx.line /\ a.column = lx.column + 1

\* C21: line is 1 plus the number of newlines in source[0..pos) and column is
\* 1 plus the number of characters consumed since the last consumed newline,
\* after every call of get_next_token and after every number of advances from
\* create_lexer; advance over a newline adds 1 to line and sets column to 1,
\* over another character adds 1 to column, and changes nothing at the end
\* of the input.
C21_LineColumn ==
    /\ TracksPosition(lexer)
    /\ AdvanceCounts(lexer)
    /\ \A k \in 0..(lexer.length + 1) :
          LET lx == Advanced(Source, k)
          IN  /\ lx.pos = (IF k <= lexer.length THEN k ELSE lexer.length)
              /\ TracksPosition(lx)
              /\ AdvanceCounts(lx)

\* C21 witness: the scan of a source with a newline inside it has ended in a
\* column other than 1 of a later line
C21_Witness ==
    /\ EofCount = 1
    /\ lexer.line >= 2
    /\ lexer.column >= 3
    /\ Len(tokens) >= 3

\* the lookahead of lx is the character at its position, NUL at the end
LookaheadInStep(lx) ==
    /\ 0 <= lx.pos
    /\ lx.pos <= lx.length
    /\ lx.length = Len(lx.source)
    /\ lx.current_char = (IF lx.pos < lx.length THEN lx.source[lx.pos + 1] ELSE 0)

\* C22: after create_lexer and any number of get_next_token calls, and after
\* any number of advances, pos <= length, current_char is source[pos] while
\* pos < length and NUL when pos = length.
C22_ScannerInvariant ==
    /\ LookaheadInStep(lexer)
    /\ \A k \in 0..(lexer.length + 1) : LookaheadInStep(Advanced(Source, k))

\* C22 witness: the cursor stands inside the source after a token, on a
\* character that is not NUL
C22_Witness ==
    /\ Len(tokens) = 1
    /\ 0 < lexer.pos
    /\ lexer.pos < lexer.length
    /\ lexer.current_char = CharAt(lexer.pos)

\* the positions from p up to `to` that follow a backslash which is not itself
\* escaped, in a string body that begins at p
RECURSIVE EscapedIn(_, _)
EscapedIn(p, to) ==
    IF p >= to THEN {}
    ELSE IF CharAt(p) = 92 THEN ({p + 1} \cap (0..(to - 1))) \cup EscapedIn(p + 2, to)
    ELSE EscapedIn(p + 1, to)

\* the double quotes after the opening quote at s that no backslash escapes
PlainQuotes(s) ==
    {q \in (s + 1)..(lexer.length - 1) :
        CharAt(q) = 34 /\ q \notin EscapedIn(s + 1, lexer.length)}

\* C32: in a string a backslash makes the next character part of the body, so
\* that an escaped double quote does not end the string: a string with a
\* double quote that is not escaped is a STRING_CONST that ends on the first
\* such quote, and its lexeme is the source text from the opening quote
\* through that quote as it stands, escape sequences kept as written.
C32_StringBody ==
    \A i \in 1..Len(tokens) :
        StartsOn(i, {34}) =>
            LET s == tokens[i].start
                e == tokens[i].end
            IN  /\ PlainQuotes(s) # {} => tokens[i].type = "STRING_CONST"
                /\ tokens[i].type = "STRING_CONST" =>
                      /\ e - 1 \in PlainQuotes(s)
                      /\ \A q \in PlainQuotes(s) : e - 1 <= q
                      /\ \A q \in (s + 1)..(e - 2) :
                            CharAt(q) = 34 => q \in EscapedIn(s + 1, e)
                      /\ Len(tokens[i].lexeme) = e - s
                      /\ \A k \in 1..(e - s) : tokens[i].lexeme[k] = CharAt(s + k - 1)

\* C32 witness: the string "\n\"x": its lexeme keeps the backslash and the n
\* and goes on past the escaped quote to the closing one
C32_Witness ==
    \E i \in 1..Len(tokens) :
        /\ tokens[i].type = "STRING_CONST"
        /\ tokens[i].lexeme = <<34, 92, 110, 92, 34, 120, 34>>
        /\ tokens[i].end = tokens[i].start + 7

====
